---- MODULE Spec2Model ----
(***************************************************************************)
(* Snapshot aggregation and integrity-repair engine of the net worth       *)
(* tracker: the Dexie tables (accounts, balances, categories,              *)
(* monthlySnapshots, categorySnapshots), the mutation API of useDatabase,  *)
(* the Calculator / Orchestrator of the db plugin and the Auditor of the   *)
(* integrity plugin.                                                       *)
(*                                                                         *)
(* Dates are yyyy-mm-dd strings in the code; they are modelled as the      *)
(* integer yyyymmdd, months (yyyy-mm) as the integer yyyymm.  For          *)
(* zero-padded dates the lexicographic order of the strings is the order   *)
(* of these integers.  Money is modelled in hundredths, so the Auditor's   *)
(* tolerance 0.01 is the integer 1.  Fields that no modelled operation     *)
(* reads (name, bank, owner, notes and createdAt of an account, createdAt  *)
(* of a monthly snapshot) are left out; the wall clock is an input.        *)
(***************************************************************************)
EXTENDS Integers, Sequences, FiniteSets, TLC

\* ----------------------------------------------------------------------
\* Bounds of the model
\* ----------------------------------------------------------------------
MaxAccounts == 2
MaxBalances == 2
MaxCategories == 2
MaxCategorySnapshots == 4
MaxProfiles == 3
MaxTransactionKey == 7

\* Dates the clock and the date pickers range over.
Dates == {20240105, 20240310}
\* Balance values, in hundredths.
Values == {-100, 250}
\* The (name, kind) pairs the category form is filled with.
CategoryInputs == {<<"Cash", "asset">>, <<"Credit", "liability">>}
CategoryNames == {c[1] : c \in CategoryInputs}

\* Tolerance of the Auditor's comparisons: 0.01, in hundredths.
Tolerance == 1

VARIABLES
    accounts,           \* table accounts: rows [id, categoryId, type]
    balances,           \* table balances: rows [id, accountId, date, value]
    categories,         \* table categories: rows [id, name, type]
    monthlySnapshots,   \* table monthlySnapshots, primary key month
    categorySnapshots,  \* table categorySnapshots: rows [id, month, categoryId, type, total]
    nextId,             \* key generators of the ++id tables
    lastOp,             \* the operation that completed last, and its outcome
    profile,            \* table profile: rows [id, userName]
    profileNextId,      \* key generator of the profile table
    profileCalls,       \* the updateProfile calls in flight, per caller
    auditTask,          \* the integrity plugin's scheduled task
    accountsValue,      \* accounts.value, the list the pages show: [id, latestBalance]
    calls,              \* the calls in flight that are followed await by await
    tx                  \* the snapshot write transaction that is open

vars == <<accounts, balances, categories, monthlySnapshots, categorySnapshots,
          nextId, lastOp, profile, profileNextId, profileCalls, auditTask,
          accountsValue, calls, tx>>

tables == <<accounts, balances, categories, monthlySnapshots, categorySnapshots,
            profile>>

\* ----------------------------------------------------------------------
\* Helpers over sets of rows
\* ----------------------------------------------------------------------
Abs(x) == IF x < 0 THEN -x ELSE x

MaxOf(S) == CHOOSE x \in S : \A y \in S : y <= x

MinOf(S) == CHOOSE x \in S : \A y \in S : x <= y

RECURSIVE SumValues(_)
\* Sum of the value field of a set of balance rows.
SumValues(S) ==
    IF S = {} THEN 0
    ELSE LET r == CHOOSE x \in S : TRUE IN r.value + SumValues(S \ {r})

RECURSIVE SortAsc(_)
\* Array.from(set).sort() on month keys: ascending sequence.
SortAsc(S) ==
    IF S = {} THEN << >>
    ELSE LET m == MinOf(S) IN <<m>> \o SortAsc(S \ {m})

\* How the last operation ended.  op is "generateAllSnapshots" when the
\* operation resolved after the full regeneration it ends with,
\* "regenerateSnapshotForMonth" (n: the month) after a single-month
\* regeneration, "runIntegrityCheck" (n: the repair count) after an audit,
\* "write" after an operation that wrote without regenerating, "corrupt"
\* (n: the month) after a manual corruption, and the error thrown when the
\* operation threw.
Op(name, n) == [op |-> name, n |-> n]

\* ----------------------------------------------------------------------
\* Month helpers (db.client getAllMonths, getMonthEndDate)
\* ----------------------------------------------------------------------
\* balance.date.substring(0, 7)
MonthOf(date) == date \div 100

getAllMonths(bals) == SortAsc({MonthOf(b.date) : b \in bals})

\* new Date(year, monthNum, 0).getDate(): the number of days of the month.
LastDay(year, monthNum) ==
    IF monthNum \in {4, 6, 9, 11} THEN 30
    ELSE IF monthNum = 2
         THEN (IF (year % 4 = 0 /\ year % 100 # 0) \/ year % 400 = 0 THEN 29 ELSE 28)
         ELSE 31

getMonthEndDate(month) == month * 100 + LastDay(month \div 100, month % 100)

\* ----------------------------------------------------------------------
\* Snapshot Calculator (db.client calculateSnapshotForMonth)
\* ----------------------------------------------------------------------
\* table.toArray(): rows in primary-key order.
RECURSIVE ToArray(_)
ToArray(rows) ==
    IF rows = {} THEN << >>
    ELSE LET r == CHOOSE x \in rows : \A y \in rows : x.id <= y.id
         IN <<r>> \o ToArray(rows \ {r})

\* Variant: the rows are not filtered by date.
BalancesUpTo_AnyDate(bals, accountId, monthEnd) ==
    {b \in bals : b.accountId = accountId}

\* balances.where('accountId').equals(id).filter(b => b.date <= monthEnd):
\* the rows the query walks.
BalancesUpTo(bals, accountId, monthEnd) ==
    {b \in bals : b.accountId = accountId /\ b.date <= monthEnd}

\* .last() of a collection on the accountId index: the index orders equal
\* keys by primary key, so the last row is the one with the greatest id.
LastByIndex(rows) == CHOOSE b \in rows : \A c \in rows : c.id <= b.id

\* Position of categoryKey in the insertion-ordered Map, 0 when absent.
MapIndex(totals, categoryKey) ==
    IF \E i \in 1..Len(totals) : totals[i].categoryId = categoryKey
    THEN CHOOSE i \in 1..Len(totals) : totals[i].categoryId = categoryKey
    ELSE 0

\* Liability branch of the Calculator: Math.abs(value).
LiabilityTerm(value) == Abs(value)

\* One iteration of the loop over accounts.
CalcStep(st, account, bals, monthEnd) ==
    LET found == BalancesUpTo(bals, account.id, monthEnd) IN
    IF account.id = 0 \/ found = {} THEN st
    ELSE
      LET value == LastByIndex(found).value
          i == MapIndex(st.categoryTotals, account.categoryId)
      IN [assetsTotal |->
              IF account.type = "asset" THEN st.assetsTotal + value
              ELSE st.assetsTotal,
          liabilitiesTotal |->
              IF account.type = "asset" THEN st.liabilitiesTotal
              ELSE st.liabilitiesTotal + LiabilityTerm(value),
          categoryTotals |->
              IF i # 0
              THEN [st.categoryTotals EXCEPT ![i].total = @ + value]
              ELSE Append(st.categoryTotals,
                          [categoryId |-> account.categoryId,
                           type |-> account.type,
                           total |-> value])]

RECURSIVE CalcLoop(_, _, _, _)
CalcLoop(st, accSeq, bals, monthEnd) ==
    IF accSeq = << >> THEN st
    ELSE CalcLoop(CalcStep(st, Head(accSeq), bals, monthEnd),
                  Tail(accSeq), bals, monthEnd)

\* Variant: liabilities are added instead of subtracted.
NetWorthOf_Added(assetsTotal, liabilitiesTotal) == assetsTotal + liabilitiesTotal

\* netWorth of the Calculator's result.
NetWorthOf(assetsTotal, liabilitiesTotal) == assetsTotal - liabilitiesTotal

calculateSnapshotForMonth(accs, bals, month) ==
    LET st == CalcLoop([assetsTotal |-> 0, liabilitiesTotal |-> 0,
                        categoryTotals |-> << >>],
                       ToArray(accs), bals, getMonthEndDate(month))
    IN [assetsTotal |-> st.assetsTotal,
        liabilitiesTotal |-> st.liabilitiesTotal,
        netWorth |-> NetWorthOf(st.assetsTotal, st.liabilitiesTotal),
        categoryTotals |-> st.categoryTotals]

\* ----------------------------------------------------------------------
\* Snapshot Store Writer and Orchestrator (db.client)
\* ----------------------------------------------------------------------
\* A snapshot store: the two snapshot tables and the key generator of
\* categorySnapshots.
SnapStore(ms, cs, next) == [ms |-> ms, cs |-> cs, next |-> next]

\* Variant: the month's rows are not deleted before the fresh ones are added.
DeleteCategorySnapshots_Skipped(cs, month) == cs

\* categorySnapshots.where('month').equals(month).delete()
DeleteCategorySnapshots(cs, month) == {r \in cs : r.month # month}

\* categorySnapshots.add(...) for every entry of the Map, in Map order.
AddCategorySnapshots(cs, next, month, totals) ==
    cs \cup {[id |-> next + i - 1, month |-> month,
              categoryId |-> totals[i].categoryId,
              type |-> totals[i].type,
              total |-> totals[i].total] : i \in 1..Len(totals)}

\* Variant: the totals are merged into the stored row instead of replacing it.
PutMonthlySnapshot_Merged(ms, row) ==
    {r \in ms : r.month # row.month} \cup
    (IF \E r \in ms : r.month = row.month
     THEN {[r EXCEPT !.assetsTotal = @ + row.assetsTotal,
                     !.liabilitiesTotal = @ + row.liabilitiesTotal,
                     !.netWorth = @ + row.netWorth]
              : r \in {x \in ms : x.month = row.month}}
     ELSE {row})

\* monthlySnapshots.put(row): replaces the row with the same primary key.
PutMonthlySnapshot(ms, row) == {r \in ms : r.month # row.month} \cup {row}

\* The body shared by generateAllSnapshots (per month) and
\* regenerateSnapshotForMonth: put, delete the month's rows, add.
WriteMonth(st, month, data) ==
    SnapStore(
        PutMonthlySnapshot(st.ms,
            [month |-> month,
             assetsTotal |-> data.assetsTotal,
             liabilitiesTotal |-> data.liabilitiesTotal,
             netWorth |-> data.netWorth]),
        AddCategorySnapshots(DeleteCategorySnapshots(st.cs, month),
                             st.next, month, data.categoryTotals),
        st.next + Len(data.categoryTotals))

RECURSIVE SweepMonths(_, _, _, _)
\* for (const month of months) { ... } of generateAllSnapshots
SweepMonths(st, months, accs, bals) ==
    IF months = << >> THEN st
    ELSE SweepMonths(
            WriteMonth(st, Head(months),
                       calculateSnapshotForMonth(accs, bals, Head(months))),
            Tail(months), accs, bals)

\* Variant: with no balance data the snapshot tables are emptied.
generateAllSnapshots_ClearsWhenEmpty(st, accs, bals) ==
    LET months == getAllMonths(bals) IN
    IF Len(months) = 0 THEN SnapStore({}, {}, st.next)
    ELSE SweepMonths(st, months, accs, bals)

generateAllSnapshots(st, accs, bals) ==
    LET months == getAllMonths(bals) IN
    IF Len(months) = 0 THEN st
    ELSE SweepMonths(st, months, accs, bals)

regenerateSnapshotForMonth(st, accs, bals, month) ==
    WriteMonth(st, month, calculateSnapshotForMonth(accs, bals, month))

\* ----------------------------------------------------------------------
\* The in-memory account list (useDatabase loadAccounts)
\* ----------------------------------------------------------------------
\* for (const account of allAccounts): the account with
\* latestBalance = balances.where('accountId').equals(id).last()?.value || 0,
\* the row with the greatest key whatever its date.
loadAccounts(accs, bals) ==
    {[id |-> a.id,
      latestBalance |->
          LET rows == {b \in bals : b.accountId = a.id} IN
          IF rows = {} THEN 0 ELSE LastByIndex(rows).value]
        : a \in {x \in accs : x.id # 0}}

\* Callers that may have a call in flight.
Callers == {1, 2}

\* ----------------------------------------------------------------------
\* Profile (useDatabase updateProfile)
\* ----------------------------------------------------------------------
\* Callers that may have an updateProfile call in flight, and the userName
\* values they save.
ProfileCallers == {1, 2, 3}
ProfileNames == {"Ann", "Bob"}

\* A caller with no call in flight.
IdleCall == [pc |-> "idle", existingId |-> 0, data |-> ""]

\* const existing = await db.profile.toArray(): the call keeps the id of
\* existing[0], the row with the least key (0 when the table is empty).
updateProfileRead(t, data) ==
    /\ profileCalls[t].pc = "idle"
    /\ profileCalls' =
          [profileCalls EXCEPT ![t] =
              [pc |-> "read",
               existingId |-> IF profile = {} THEN 0
                              ELSE MinOf({r.id : r \in profile}),
               data |-> data]]
    /\ UNCHANGED <<accounts, balances, categories, monthlySnapshots,
                   categorySnapshots, nextId, lastOp, profile, profileNextId,
                   auditTask, accountsValue, calls, tx>>

\* if (existing.length > 0 && existing[0]?.id) update(existing[0].id, data)
\* else add(data)
updateProfileWrite(t) ==
    LET call == profileCalls[t] IN
    /\ call.pc = "read"
    /\ IF call.existingId # 0
       THEN /\ profile' = {IF r.id = call.existingId
                            THEN [r EXCEPT !.userName = call.data] ELSE r
                               : r \in profile}
            /\ profileNextId' = profileNextId
       ELSE /\ profileNextId <= MaxProfiles
            /\ profile' = profile \cup
                   {[id |-> profileNextId, userName |-> call.data]}
            /\ profileNextId' = profileNextId + 1
    /\ profileCalls' = [profileCalls EXCEPT ![t] = IdleCall]
    /\ accountsValue' = loadAccounts(accounts, balances)
    /\ UNCHANGED <<accounts, balances, categories, monthlySnapshots,
                   categorySnapshots, nextId, lastOp, auditTask, calls, tx>>

\* An operation that does not touch the profile table.
ProfileUntouched == UNCHANGED <<profile, profileNextId, profileCalls>>

\* The scheduled task of the integrity plugin: where it stands, whether its
\* audit threw, how often each tier was started and what it logged as errors.
ScheduledTask == [pc |-> "scheduled", audits |-> 0, auditThrew |-> FALSE,
                  regenerations |-> 0, errors |-> << >>]

\* An operation of the data layer: it is not a step of the scheduled task.
TaskUntouched == UNCHANGED auditTask

\* No call that is followed await by await is in flight and no snapshot
\* write transaction is open.
NoCall == [pc |-> "idle"]
NoTx == [pc |-> "none"]

\* An operation that runs as one step of its own.
CallsUntouched == UNCHANGED <<calls, tx>>

\* An operation on the financial tables alone.
StoreOnly == ProfileUntouched /\ TaskUntouched /\ CallsUntouched

\* ----------------------------------------------------------------------
\* Initial state: the database right after it was opened for the first time
\* ----------------------------------------------------------------------
Init ==
    /\ accounts = {}
    /\ balances = {}
    /\ categories = {}
    /\ monthlySnapshots = {}
    /\ categorySnapshots = {}
    /\ nextId = [accounts |-> 1, balances |-> 1, categories |-> 1,
                 categorySnapshots |-> 1]
    /\ lastOp = Op("write", 0)
    /\ profile = {}
    /\ profileNextId = 1
    /\ profileCalls = [t \in ProfileCallers |-> IdleCall]
    /\ auditTask = ScheduledTask
    /\ accountsValue = {}
    /\ calls = [t \in Callers |-> NoCall]
    /\ tx = NoTx

\* The snapshot tables as the argument of the Orchestrator.
CurrentSnapStore ==
    SnapStore(monthlySnapshots, categorySnapshots, nextId.categorySnapshots)

\* Commit of a mutation that ends with `await loadAccounts()` and
\* `await generateAllSnapshots(db)`.
\* The guard keeps the key generator of categorySnapshots within the bound.
CommitWithRegeneration(accs, bals, next) ==
    LET st == generateAllSnapshots(CurrentSnapStore, accs, bals) IN
    /\ st.next <= MaxCategorySnapshots + 1
    /\ accounts' = accs
    /\ balances' = bals
    /\ accountsValue' = loadAccounts(accs, bals)
    /\ monthlySnapshots' = st.ms
    /\ categorySnapshots' = st.cs
    /\ nextId' = [next EXCEPT !.categorySnapshots = st.next]

\* An operation that throws before it wrote anything.
Rejected(error) ==
    /\ lastOp' = Op(error, 0)
    /\ UNCHANGED <<accounts, balances, categories, monthlySnapshots,
                   categorySnapshots, nextId, accountsValue>>

\* categories.where('name').equals(name).first()
CategoryByName(name) ==
    LET found == {c \in categories : c.name = name} IN
    IF found = {} THEN {}
    ELSE {CHOOSE c \in found : \A d \in found : c.id <= d.id}

\* ----------------------------------------------------------------------
\* Mutation API (useDatabase)
\* ----------------------------------------------------------------------
addAccount(categoryName, initialBalance, now) ==
    LET category == CategoryByName(categoryName) IN
    IF category = {} \/ (\E c \in category : c.id = 0)
    THEN Rejected("Category not found")
    ELSE
      LET c == CHOOSE x \in category : TRUE
          newAccountId == nextId.accounts
      IN /\ newAccountId <= MaxAccounts
         /\ nextId.balances <= MaxBalances
         /\ CommitWithRegeneration(
              accounts \cup {[id |-> newAccountId, categoryId |-> c.id,
                              type |-> c.type]},
              balances \cup {[id |-> nextId.balances,
                              accountId |-> newAccountId,
                              date |-> now, value |-> initialBalance]},
              [nextId EXCEPT !.accounts = @ + 1, !.balances = @ + 1])
         /\ categories' = categories
         /\ lastOp' = Op("generateAllSnapshots", 0)

\* balances.where('accountId').equals(accountId).filter(b => b.date === date).first()
ExistingBalance(accountId, date) ==
    LET found == {b \in balances : b.accountId = accountId /\ b.date = date} IN
    IF found = {} THEN {}
    ELSE {CHOOSE b \in found : \A c \in found : b.id <= c.id}

updateBalance(accountId, value, date) ==
    LET existing == ExistingBalance(accountId, date) IN
    /\ IF existing # {}
       THEN CommitWithRegeneration(
              accounts,
              {IF b \in existing THEN [b EXCEPT !.value = value] ELSE b
                  : b \in balances},
              nextId)
       ELSE /\ nextId.balances <= MaxBalances
            /\ CommitWithRegeneration(
                 accounts,
                 balances \cup {[id |-> nextId.balances, accountId |-> accountId,
                                 date |-> date, value |-> value]},
                 [nextId EXCEPT !.balances = @ + 1])
    /\ categories' = categories
    /\ lastOp' = Op("generateAllSnapshots", 0)

\* Variant: the regeneration runs although the category was not found.
updateAccount_RegeneratesAfterError(accountId, categoryName) ==
    LET category == CategoryByName(categoryName) IN
    IF category = {} \/ (\E c \in category : c.id = 0)
    THEN /\ CommitWithRegeneration(accounts, balances, nextId)
         /\ categories' = categories
         /\ lastOp' = Op("Category not found", 0)
    ELSE
      LET c == CHOOSE x \in category : TRUE IN
      /\ CommitWithRegeneration(
           {IF a.id = accountId
            THEN [a EXCEPT !.categoryId = c.id, !.type = c.type] ELSE a
               : a \in accounts},
           balances, nextId)
      /\ categories' = categories
      /\ lastOp' = Op("generateAllSnapshots", 0)

updateAccount(accountId, categoryName) ==
    LET category == CategoryByName(categoryName) IN
    IF category = {} \/ (\E c \in category : c.id = 0)
    THEN Rejected("Category not found")
    ELSE
      LET c == CHOOSE x \in category : TRUE IN
      /\ CommitWithRegeneration(
           {IF a.id = accountId
            THEN [a EXCEPT !.categoryId = c.id, !.type = c.type] ELSE a
               : a \in accounts},
           balances, nextId)
      /\ categories' = categories
      /\ lastOp' = Op("generateAllSnapshots", 0)

deleteAccount(accountId) ==
    /\ CommitWithRegeneration(
         {a \in accounts : a.id # accountId},
         {b \in balances : b.accountId # accountId},
         nextId)
    /\ categories' = categories
    /\ lastOp' = Op("generateAllSnapshots", 0)

\* String.toLowerCase on the category names of the model.
LowerCase(name) ==
    CASE name = "Cash" -> "cash"
      [] name = "Credit" -> "credit"
      [] OTHER -> name

\* Variant: the names are compared exactly.
CategoryByNameIgnoreCase_Exact(name) ==
    LET found == {c \in categories : c.name = name} IN
    IF found = {} THEN {}
    ELSE {CHOOSE c \in found : \A d \in found : c.id <= d.id}

\* categories.where('name').equalsIgnoreCase(name).first()
CategoryByNameIgnoreCase(name) ==
    LET found == {c \in categories : LowerCase(c.name) = LowerCase(name)} IN
    IF found = {} THEN {}
    ELSE {CHOOSE c \in found : \A d \in found : c.id <= d.id}

addCategory(name, type) ==
    IF CategoryByNameIgnoreCase(name) # {}
    THEN Rejected("Category already exists")
    ELSE /\ nextId.categories <= MaxCategories
         /\ categories' = categories \cup
                {[id |-> nextId.categories, name |-> name, type |-> type]}
         /\ nextId' = [nextId EXCEPT !.categories = @ + 1]
         /\ lastOp' = Op("write", 0)
         /\ accountsValue' = loadAccounts(accounts, balances)
         /\ UNCHANGED <<accounts, balances, monthlySnapshots,
                        categorySnapshots>>

\* Variant: the new type is not carried over to the accounts of the category.
updateCategory_NoCascade(id, name, type) ==
    LET existing == CategoryByNameIgnoreCase(name) IN
    IF existing # {} /\ (\E c \in existing : c.id # id)
    THEN Rejected("Category already exists")
    ELSE /\ categories' = {IF c.id = id
                            THEN [c EXCEPT !.name = name, !.type = type] ELSE c
                               : c \in categories}
         /\ CommitWithRegeneration(accounts, balances, nextId)
         /\ lastOp' = Op("generateAllSnapshots", 0)

updateCategory(id, name, type) ==
    LET existing == CategoryByNameIgnoreCase(name) IN
    IF existing # {} /\ (\E c \in existing : c.id # id)
    THEN Rejected("Category already exists")
    ELSE /\ categories' = {IF c.id = id
                            THEN [c EXCEPT !.name = name, !.type = type] ELSE c
                               : c \in categories}
         /\ CommitWithRegeneration(
              {IF a.categoryId = id THEN [a EXCEPT !.type = type] ELSE a
                  : a \in accounts},
              balances, nextId)
         /\ lastOp' = Op("generateAllSnapshots", 0)

\* accounts.where('categoryId').equals(id).count()
AccountsUsingCategory(id) == Cardinality({a \in accounts : a.categoryId = id})

\* Variant: the category is deleted without counting the accounts that use it.
deleteCategory_Unchecked(id) ==
    /\ categories' = {c \in categories : c.id # id}
    /\ lastOp' = Op("write", 0)
    /\ accountsValue' = loadAccounts(accounts, balances)
    /\ UNCHANGED <<accounts, balances, monthlySnapshots,
                   categorySnapshots, nextId>>

deleteCategory(id) ==
    IF AccountsUsingCategory(id) > 0
    THEN Rejected("Cannot delete category")
    ELSE /\ categories' = {c \in categories : c.id # id}
         /\ lastOp' = Op("write", 0)
         /\ accountsValue' = loadAccounts(accounts, balances)
         /\ UNCHANGED <<accounts, balances, monthlySnapshots,
                        categorySnapshots, nextId>>

\* ----------------------------------------------------------------------
\* Bulk import (useDatabase isDatabaseExport, importDatabase)
\* ----------------------------------------------------------------------
\* The documents offered to importDatabase: the export of a fresh database,
\* the export of a database with one asset account, a document whose
\* version is not a number, a value that is not an object, and a document
\* whose data is missing.
EmptyData ==
    [accounts |-> {}, balances |-> {}, categories |-> {},
     snapshots |-> {}, categorySnapshots |-> {}, profile |-> {}]

OneAccountData ==
    [accounts |-> {[id |-> 1, categoryId |-> 1, type |-> "asset"]},
     balances |-> {[id |-> 1, accountId |-> 1, date |-> 20240105, value |-> 250]},
     categories |-> {[id |-> 1, name |-> "Cash", type |-> "asset"]},
     snapshots |-> {[month |-> 202401, assetsTotal |-> 250,
                     liabilitiesTotal |-> 0, netWorth |-> 250]},
     categorySnapshots |-> {[id |-> 1, month |-> 202401, categoryId |-> 1,
                             type |-> "asset", total |-> 250]},
     profile |-> {}]

ImportDocs ==
    {[isObject |-> TRUE, versionIsNumber |-> TRUE, dataIsObject |-> TRUE,
      data |-> EmptyData],
     [isObject |-> TRUE, versionIsNumber |-> TRUE, dataIsObject |-> TRUE,
      data |-> OneAccountData],
     [isObject |-> TRUE, versionIsNumber |-> FALSE, dataIsObject |-> TRUE,
      data |-> OneAccountData],
     [isObject |-> FALSE, versionIsNumber |-> FALSE, dataIsObject |-> FALSE,
      data |-> EmptyData],
     [isObject |-> TRUE, versionIsNumber |-> TRUE, dataIsObject |-> FALSE,
      data |-> EmptyData]}

isDatabaseExport(json) ==
    json.isObject /\ json.versionIsNumber /\ json.dataIsObject

\* Key generator of a ++id table after bulkAdd of rows with explicit keys.
BumpKey(next, rows) ==
    IF rows = {} THEN next
    ELSE LET top == MaxOf({r.id : r \in rows}) + 1 IN
         IF top > next THEN top ELSE next

\* Variant: the document is imported without the check of its shape.
importDatabase_Unvalidated(json) ==
    LET d == json.data
        next == [accounts |-> BumpKey(nextId.accounts, d.accounts),
                 balances |-> BumpKey(nextId.balances, d.balances),
                 categories |-> BumpKey(nextId.categories, d.categories),
                 categorySnapshots |->
                     BumpKey(nextId.categorySnapshots, d.categorySnapshots)]
        st == generateAllSnapshots(
                  SnapStore(d.snapshots, d.categorySnapshots,
                            next.categorySnapshots),
                  d.accounts, d.balances)
    IN /\ st.next <= MaxCategorySnapshots + 1
       /\ accounts' = d.accounts
       /\ balances' = d.balances
       /\ categories' = d.categories
       /\ monthlySnapshots' = st.ms
       /\ categorySnapshots' = st.cs
       /\ nextId' = [next EXCEPT !.categorySnapshots = st.next]
       /\ lastOp' = Op("generateAllSnapshots", 0)
       /\ profile' = d.profile
       /\ profileNextId' = BumpKey(profileNextId, d.profile)
       /\ profileCalls' = profileCalls
       /\ auditTask' = auditTask
       /\ accountsValue' = loadAccounts(d.accounts, d.balances)
       /\ UNCHANGED <<calls, tx>>

importDatabase(json) ==
    IF ~isDatabaseExport(json)
    THEN Rejected("Invalid export file format") /\ StoreOnly
    ELSE
      LET d == json.data
          next == [accounts |-> BumpKey(nextId.accounts, d.accounts),
                   balances |-> BumpKey(nextId.balances, d.balances),
                   categories |-> BumpKey(nextId.categories, d.categories),
                   categorySnapshots |->
                       BumpKey(nextId.categorySnapshots, d.categorySnapshots)]
          st == generateAllSnapshots(
                    SnapStore(d.snapshots, d.categorySnapshots,
                              next.categorySnapshots),
                    d.accounts, d.balances)
      IN /\ st.next <= MaxCategorySnapshots + 1
         /\ accounts' = d.accounts
         /\ balances' = d.balances
         /\ categories' = d.categories
         /\ monthlySnapshots' = st.ms
         /\ categorySnapshots' = st.cs
         /\ nextId' = [next EXCEPT !.categorySnapshots = st.next]
         /\ lastOp' = Op("generateAllSnapshots", 0)
         /\ profile' = d.profile
         /\ profileNextId' = BumpKey(profileNextId, d.profile)
         /\ profileCalls' = profileCalls
         /\ auditTask' = auditTask
         /\ accountsValue' = loadAccounts(d.accounts, d.balances)
         /\ UNCHANGED <<calls, tx>>

\* ----------------------------------------------------------------------
\* Integrity Auditor (integrity plugin)
\* ----------------------------------------------------------------------
\* Position of categoryKey in the Auditor's Map<number, number>.
ExpectedStep(st, account, bals, monthEnd) ==
    LET found == BalancesUpTo(bals, account.id, monthEnd) IN
    IF account.id = 0 \/ found = {} THEN st
    ELSE
      LET value == LastByIndex(found).value
          i == MapIndex(st.categoryTotals, account.categoryId)
      IN [assetsTotal |->
              IF account.type = "asset" THEN st.assetsTotal + value
              ELSE st.assetsTotal,
          liabilitiesTotal |->
              IF account.type = "asset" THEN st.liabilitiesTotal
              ELSE st.liabilitiesTotal + value,
          categoryTotals |->
              IF i # 0
              THEN [st.categoryTotals EXCEPT ![i].total = @ + value]
              ELSE Append(st.categoryTotals,
                          [categoryId |-> account.categoryId,
                           total |-> 0 + value])]

RECURSIVE ExpectedLoop(_, _, _, _)
ExpectedLoop(st, accSeq, bals, monthEnd) ==
    IF accSeq = << >> THEN st
    ELSE ExpectedLoop(ExpectedStep(st, Head(accSeq), bals, monthEnd),
                      Tail(accSeq), bals, monthEnd)

calculateExpectedSnapshot(accs, bals, month) ==
    LET st == ExpectedLoop([assetsTotal |-> 0, liabilitiesTotal |-> 0,
                            categoryTotals |-> << >>],
                           ToArray(accs), bals, getMonthEndDate(month))
    IN [assetsTotal |-> st.assetsTotal,
        liabilitiesTotal |-> st.liabilitiesTotal,
        netWorth |-> st.assetsTotal - st.liabilitiesTotal,
        categoryTotals |-> st.categoryTotals]

\* storedCategoryTotals.get(categoryId): the rows of the month are walked in
\* index order ([month+categoryId], then primary key) and a later row
\* replaces an earlier one of the same category.
StoredCategoryRows(cs, month, categoryId) ==
    {r \in cs : r.month = month /\ r.categoryId = categoryId}

\* Math.abs(stored - expected) > 0.01
Deviates(stored, expected) == Abs(stored - expected) > Tolerance

\* Variant: only the net worth is compared.
verifySnapshot_NetWorthOnly(ms, cs, accs, bals, month) ==
    LET stored == {r \in ms : r.month = month} IN
    IF stored = {} THEN FALSE
    ELSE
      LET row == CHOOSE r \in stored : TRUE
          expected == calculateExpectedSnapshot(accs, bals, month)
      IN ~Deviates(row.netWorth, expected.netWorth)

verifySnapshot(ms, cs, accs, bals, month) ==
    LET stored == {r \in ms : r.month = month} IN
    IF stored = {} THEN FALSE
    ELSE
      LET row == CHOOSE r \in stored : TRUE
          expected == calculateExpectedSnapshot(accs, bals, month)
      IN IF Deviates(row.netWorth, expected.netWorth) THEN FALSE
         ELSE \A i \in 1..Len(expected.categoryTotals) :
                LET rows == StoredCategoryRows(cs, month,
                                expected.categoryTotals[i].categoryId)
                IN /\ rows # {}
                   /\ ~Deviates(LastByIndex(rows).total,
                                expected.categoryTotals[i].total)

RECURSIVE AuditLoop(_, _, _, _, _)
\* for (const month of months) { verify; repair; repairCount++ }
AuditLoop(st, repairCount, months, accs, bals) ==
    IF months = << >> THEN [store |-> st, repairCount |-> repairCount]
    ELSE IF verifySnapshot(st.ms, st.cs, accs, bals, Head(months))
         THEN AuditLoop(st, repairCount, Tail(months), accs, bals)
         ELSE AuditLoop(
                regenerateSnapshotForMonth(st, accs, bals, Head(months)),
                repairCount + 1, Tail(months), accs, bals)

runIntegrityCheck ==
    LET months == getAllMonths(balances) IN
    IF Len(months) = 0
    THEN /\ lastOp' = Op("runIntegrityCheck", 0)
         /\ UNCHANGED <<accounts, balances, categories, monthlySnapshots,
                        categorySnapshots, nextId, accountsValue>>
    ELSE
      LET res == AuditLoop(CurrentSnapStore, 0, months, accounts, balances)
      IN /\ res.store.next <= MaxCategorySnapshots + 1
         /\ monthlySnapshots' = res.store.ms
         /\ categorySnapshots' = res.store.cs
         /\ nextId' = [nextId EXCEPT !.categorySnapshots = res.store.next]
         /\ lastOp' = Op("runIntegrityCheck", res.repairCount)
         /\ UNCHANGED <<accounts, balances, categories, accountsValue>>

\* ----------------------------------------------------------------------
\* The Orchestrator's two entry points called on their own
\* ----------------------------------------------------------------------
fullRegeneration ==
    LET st == generateAllSnapshots(CurrentSnapStore, accounts, balances) IN
    /\ st.next <= MaxCategorySnapshots + 1
    /\ monthlySnapshots' = st.ms
    /\ categorySnapshots' = st.cs
    /\ nextId' = [nextId EXCEPT !.categorySnapshots = st.next]
    /\ lastOp' = Op("generateAllSnapshots", 0)
    /\ UNCHANGED <<accounts, balances, categories, accountsValue>>

singleMonthRegeneration(month) ==
    LET st == regenerateSnapshotForMonth(CurrentSnapStore, accounts, balances,
                                         month)
    IN /\ st.next <= MaxCategorySnapshots + 1
       /\ monthlySnapshots' = st.ms
       /\ categorySnapshots' = st.cs
       /\ nextId' = [nextId EXCEPT !.categorySnapshots = st.next]
       /\ lastOp' = Op("regenerateSnapshotForMonth", month)
       /\ UNCHANGED <<accounts, balances, categories, accountsValue>>

\* ----------------------------------------------------------------------
\* Manual corruption of one stored netWorth, for the audit repair scenario
\* ----------------------------------------------------------------------
\* Amounts added to a stored netWorth: both are beyond the tolerance.
CorruptDeltas == {2, 200}

\* No stored netWorth has been overwritten.
Uncorrupted == \A r \in monthlySnapshots :
                  r.netWorth = r.assetsTotal - r.liabilitiesTotal

\* The last step was a full regeneration that ran to completion.
JustRegenerated == lastOp.op = "generateAllSnapshots"

corruptNetWorth(month, delta) ==
    /\ JustRegenerated
    /\ Uncorrupted
    /\ month \in {MonthOf(b.date) : b \in balances}
    /\ \E r \in monthlySnapshots : r.month = month
    /\ monthlySnapshots' =
          {IF r.month = month THEN [r EXCEPT !.netWorth = @ + delta] ELSE r
              : r \in monthlySnapshots}
    /\ lastOp' = Op("corrupt", month)
    /\ UNCHANGED <<accounts, balances, categories, categorySnapshots,
                   nextId, accountsValue>>

\* ----------------------------------------------------------------------
\* Specifications
\* ----------------------------------------------------------------------
AccountIds == 1..MaxAccounts
CategoryIds == 1..MaxCategories
Months == {MonthOf(d) : d \in Dates}

\* Ids of the rows now in the accounts and categories tables: what the
\* pages of the application pass to the mutation API.
ExistingAccountIds == {a.id : a \in accounts}
ExistingCategoryIds == {c.id : c \in categories}

AddAccount ==
    /\ StoreOnly
    /\ \E c \in CategoryNames, v \in Values, now \in Dates :
          addAccount(c, v, now)

UpdateBalance(ids) ==
    /\ StoreOnly
    /\ \E id \in ids, v \in Values, d \in Dates : updateBalance(id, v, d)

UpdateAccount(ids) ==
    /\ StoreOnly
    /\ \E id \in ids, c \in CategoryNames : updateAccount(id, c)

DeleteAccount(ids) ==
    /\ StoreOnly
    /\ \E id \in ids : deleteAccount(id)

AddCategory ==
    /\ StoreOnly
    /\ \E c \in CategoryInputs : addCategory(c[1], c[2])

UpdateCategory(ids) ==
    /\ StoreOnly
    /\ \E id \in ids, c \in CategoryInputs : updateCategory(id, c[1], c[2])

DeleteCategory(ids) ==
    /\ StoreOnly
    /\ \E id \in ids : deleteCategory(id)

ImportDatabase ==
    \E json \in ImportDocs : importDatabase(json)

RunIntegrityCheck == runIntegrityCheck /\ StoreOnly

FullRegeneration == fullRegeneration /\ StoreOnly

SingleMonthRegeneration ==
    /\ StoreOnly
    /\ \E m \in {MonthOf(b.date) : b \in balances} : singleMonthRegeneration(m)

CorruptNetWorth ==
    /\ StoreOnly
    /\ \E m \in Months, delta \in CorruptDeltas : corruptNetWorth(m, delta)

\* The exported operations called with any id, existing or not.
Next ==
    \/ AddAccount
    \/ UpdateBalance(AccountIds)
    \/ UpdateAccount(AccountIds)
    \/ DeleteAccount(AccountIds)
    \/ AddCategory
    \/ UpdateCategory(CategoryIds)
    \/ DeleteCategory(CategoryIds)
    \/ ImportDatabase
    \/ RunIntegrityCheck
    \/ FullRegeneration
    \/ SingleMonthRegeneration

Spec == Init /\ [][Next]_vars

\* The operations as the pages call them: on the accounts and categories
\* that are in the store.
NextUi ==
    \/ AddAccount
    \/ UpdateBalance(ExistingAccountIds)
    \/ UpdateAccount(ExistingAccountIds)
    \/ DeleteAccount(ExistingAccountIds)
    \/ AddCategory
    \/ UpdateCategory(ExistingCategoryIds)
    \/ DeleteCategory(ExistingCategoryIds)
    \/ ImportDatabase
    \/ RunIntegrityCheck
    \/ FullRegeneration
    \/ SingleMonthRegeneration

SpecUi == Init /\ [][NextUi]_vars

\* The pages together with a manual corruption of a stored snapshot, which
\* the Auditor's run follows at once.
NextAudit ==
    \/ lastOp.op # "corrupt" /\ NextUi
    \/ CorruptNetWorth
    \/ lastOp.op = "corrupt" /\ RunIntegrityCheck

SpecAudit == Init /\ [][NextAudit]_vars

\* The account and balance operations of the API called with any id, and
\* addCategory, without which addAccount finds no category.
NextApi ==
    \/ AddCategory
    \/ AddAccount
    \/ UpdateBalance(AccountIds)
    \/ DeleteAccount(AccountIds)

SpecApi == Init /\ [][NextApi]_vars

\* The category operations called with names that differ only in case, and
\* with either kind.
CategoryNameVariants == {"Cash", "cash", "Credit", "credit"}
CategoryKinds == {"asset", "liability"}

AddCategoryVariant ==
    /\ StoreOnly
    /\ \E name \in CategoryNameVariants, kind \in CategoryKinds :
          addCategory(name, kind)

UpdateCategoryVariant ==
    /\ StoreOnly
    /\ \E id \in CategoryIds, name \in CategoryNameVariants,
          kind \in CategoryKinds : updateCategory(id, name, kind)

NextCategories ==
    \/ AddCategoryVariant
    \/ UpdateCategoryVariant
    \/ DeleteCategory(CategoryIds)

SpecCategories == Init /\ [][NextCategories]_vars

\* The carry-forward scenario: balances of 100 and 150 recorded in either
\* order on the two dates, and single-month regenerations of the months
\* before, between and after them.
ScenarioValues == {100, 150}
ScenarioMonths == {202312, 202402, 202404}

AddAccountScenario ==
    /\ StoreOnly
    /\ \E c \in CategoryNames, v \in ScenarioValues, now \in Dates :
          addAccount(c, v, now)

UpdateBalanceScenario ==
    /\ StoreOnly
    /\ \E id \in ExistingAccountIds, v \in ScenarioValues, d \in Dates :
          updateBalance(id, v, d)

RegenerateScenarioMonth ==
    /\ StoreOnly
    /\ \E m \in ScenarioMonths : singleMonthRegeneration(m)

NextScenario ==
    \/ AddCategory
    \/ AddAccountScenario
    \/ UpdateBalanceScenario
    \/ RegenerateScenarioMonth

SpecScenario == Init /\ [][NextScenario]_vars

\* Manual damage to the stored snapshots of one month of a freshly
\* regenerated store: its MonthlySnapshot row removed, its CategorySnapshot
\* rows removed, or its netWorth or category totals moved by an amount
\* within (1) or beyond (2) the tolerance.
DamageKinds == {"dropMonth", "dropCategories", "netWorth", "categoryTotal"}
DamageDeltas == {1, 2}

damageSnapshot(month, kind, delta) ==
    /\ JustRegenerated
    /\ month \in {MonthOf(b.date) : b \in balances}
    /\ \E r \in monthlySnapshots : r.month = month
    /\ kind \in {"dropCategories", "categoryTotal"}
          => \E r \in categorySnapshots : r.month = month
    /\ monthlySnapshots' =
          CASE kind = "dropMonth" ->
                 {r \in monthlySnapshots : r.month # month}
            [] kind = "netWorth" ->
                 {IF r.month = month THEN [r EXCEPT !.netWorth = @ + delta]
                  ELSE r : r \in monthlySnapshots}
            [] OTHER -> monthlySnapshots
    /\ categorySnapshots' =
          CASE kind = "dropCategories" ->
                 {r \in categorySnapshots : r.month # month}
            [] kind = "categoryTotal" ->
                 {IF r.month = month THEN [r EXCEPT !.total = @ + delta]
                  ELSE r : r \in categorySnapshots}
            [] OTHER -> categorySnapshots
    /\ lastOp' = Op("corrupt", month)
    /\ UNCHANGED <<accounts, balances, categories, nextId, accountsValue>>

DamageSnapshot ==
    /\ StoreOnly
    /\ \E m \in Months, kind \in DamageKinds, delta \in DamageDeltas :
          damageSnapshot(m, kind, delta)

\* Accounts and balances are entered, a month's snapshots are damaged, and
\* the Auditor's run follows the damage at once.
NextDetect ==
    \/ lastOp.op # "corrupt" /\ AddCategory
    \/ lastOp.op # "corrupt" /\ AddAccount
    \/ lastOp.op # "corrupt" /\ UpdateBalance(ExistingAccountIds)
    \/ DamageSnapshot
    \/ RunIntegrityCheck

SpecDetect == Init /\ [][NextDetect]_vars

\* Manual damage the netWorth comparison cannot see: assetsTotal and
\* liabilitiesTotal of a month both moved by the same amount, or a
\* CategorySnapshot row added for a category that does not contribute to
\* the month.
SkewKinds == {"totals", "extraCategory"}

skewSnapshot(month, kind, categoryId) ==
    /\ JustRegenerated
    /\ month \in {MonthOf(b.date) : b \in balances}
    /\ \E r \in monthlySnapshots : r.month = month
    /\ IF kind = "totals"
       THEN /\ monthlySnapshots' =
                 {IF r.month = month
                  THEN [r EXCEPT !.assetsTotal = @ + 200,
                                 !.liabilitiesTotal = @ + 200]
                  ELSE r : r \in monthlySnapshots}
            /\ UNCHANGED <<categorySnapshots, nextId>>
       ELSE /\ \A r \in categorySnapshots :
                  r.month = month => r.categoryId # categoryId
            /\ nextId.categorySnapshots <= MaxCategorySnapshots
            /\ categorySnapshots' = categorySnapshots \cup
                  {[id |-> nextId.categorySnapshots, month |-> month,
                    categoryId |-> categoryId, type |-> "asset",
                    total |-> 200]}
            /\ nextId' = [nextId EXCEPT !.categorySnapshots = @ + 1]
            /\ UNCHANGED monthlySnapshots
    /\ lastOp' = Op("corrupt", month)
    /\ UNCHANGED <<accounts, balances, categories, accountsValue>>

SkewSnapshot ==
    /\ StoreOnly
    /\ \E m \in Months, kind \in SkewKinds, c \in CategoryIds :
          skewSnapshot(m, kind, c)

\* Accounts and balances are entered, a month's snapshots are skewed, and
\* the Auditor's run follows at once.
NextSkew ==
    \/ lastOp.op # "corrupt" /\ AddCategory
    \/ lastOp.op # "corrupt" /\ AddAccount
    \/ lastOp.op # "corrupt" /\ UpdateBalance(ExistingAccountIds)
    \/ SkewSnapshot
    \/ RunIntegrityCheck

SpecSkew == Init /\ [][NextSkew]_vars

\* ----------------------------------------------------------------------
\* The snapshot write transaction, request by request (db.client)
\* ----------------------------------------------------------------------
\* database.transaction('rw', [...], async () => {...}): the requests made
\* inside the scope function act on the transaction's own view of the
\* tables; the view replaces the tables when the transaction commits and is
\* dropped, key generator included, when it aborts.
NoData == [assetsTotal |-> 0, liabilitiesTotal |-> 0, netWorth |-> 0,
           categoryTotals |-> << >>]

\* What the transaction leaves alone whatever it does.
TxFrame ==
    UNCHANGED <<accounts, balances, categories, accountsValue, profile,
                profileNextId, profileCalls, auditTask, calls>>

\* Variant: every request is committed on its own, at once.
WriteInTransaction_AutoCommitted(st) ==
    /\ monthlySnapshots' = st.ms
    /\ categorySnapshots' = st.cs
    /\ nextId' = [nextId EXCEPT !.categorySnapshots = st.next]

\* A request inside the transaction: the tables the readers see stay as
\* they are.
WriteInTransaction(st) ==
    UNCHANGED <<monthlySnapshots, categorySnapshots, nextId>>

\* generateAllSnapshots: the months are enumerated and the transaction over
\* monthlySnapshots, categorySnapshots, accounts and balances is opened.
beginSweep ==
    LET months == getAllMonths(balances) IN
    /\ tx = NoTx
    /\ Len(months) > 0
    /\ tx' = [pc |-> "calc", kind |-> "sweep", months |-> months,
              data |-> NoData, adds |-> 0, done |-> 0,
              view |-> CurrentSnapStore, before |-> CurrentSnapStore]
    /\ UNCHANGED <<monthlySnapshots, categorySnapshots, nextId, lastOp>>
    /\ TxFrame

\* regenerateSnapshotForMonth: the totals are calculated, then the
\* transaction over monthlySnapshots and categorySnapshots is opened.
beginMonth(month) ==
    /\ tx = NoTx
    /\ tx' = [pc |-> "put", kind |-> "month", months |-> <<month>>,
              data |-> calculateSnapshotForMonth(accounts, balances, month),
              adds |-> 0, done |-> 0,
              view |-> CurrentSnapStore, before |-> CurrentSnapStore]
    /\ UNCHANGED <<monthlySnapshots, categorySnapshots, nextId, lastOp>>
    /\ TxFrame

\* const data = await calculateSnapshotForMonth(database, month), inside the
\* sweep's transaction.
txCalculate ==
    /\ tx.pc = "calc"
    /\ tx' = [tx EXCEPT
                !.pc = "put",
                !.data = calculateSnapshotForMonth(accounts, balances,
                                                   Head(tx.months))]
    /\ UNCHANGED <<monthlySnapshots, categorySnapshots, nextId, lastOp>>
    /\ TxFrame

\* await database.monthlySnapshots.put({...})
txPut ==
    /\ tx.pc = "put"
    /\ LET st == [tx.view EXCEPT
                    !.ms = PutMonthlySnapshot(@,
                              [month |-> Head(tx.months),
                               assetsTotal |-> tx.data.assetsTotal,
                               liabilitiesTotal |-> tx.data.liabilitiesTotal,
                               netWorth |-> tx.data.netWorth])]
       IN /\ tx' = [tx EXCEPT !.pc = "delete", !.view = st]
          /\ WriteInTransaction(st)
    /\ UNCHANGED lastOp
    /\ TxFrame

\* Where the scope function stands once the rows of the month are added:
\* at the next month of the sweep, or at its end.
MonthWritten(t) ==
    [t EXCEPT !.months = Tail(@), !.done = @ + 1, !.adds = 0,
              !.pc = IF Len(t.months) > 1 THEN "calc" ELSE "commit"]

\* await database.categorySnapshots.where('month').equals(month).delete()
txDelete ==
    /\ tx.pc = "delete"
    /\ LET st == [tx.view EXCEPT
                    !.cs = DeleteCategorySnapshots(@, Head(tx.months))]
           t == [tx EXCEPT !.pc = "add", !.adds = 1, !.view = st]
       IN /\ tx' = IF Len(tx.data.categoryTotals) = 0 THEN MonthWritten(t)
                   ELSE t
          /\ WriteInTransaction(st)
    /\ UNCHANGED lastOp
    /\ TxFrame

\* await database.categorySnapshots.add({...}), one entry of the Map.
txAdd ==
    /\ tx.pc = "add"
    /\ tx.view.next <= MaxTransactionKey
    /\ LET e == tx.data.categoryTotals[tx.adds]
           st == [tx.view EXCEPT
                    !.cs = @ \cup {[id |-> tx.view.next,
                                    month |-> Head(tx.months),
                                    categoryId |-> e.categoryId,
                                    type |-> e.type, total |-> e.total]},
                    !.next = @ + 1]
           t == [tx EXCEPT !.adds = @ + 1, !.view = st]
       IN /\ tx' = IF tx.adds = Len(tx.data.categoryTotals)
                   THEN MonthWritten(t) ELSE t
          /\ WriteInTransaction(st)
    /\ UNCHANGED lastOp
    /\ TxFrame

\* The scope function returned: the transaction commits.
txCommit ==
    /\ tx.pc = "commit"
    /\ monthlySnapshots' = tx.view.ms
    /\ categorySnapshots' = tx.view.cs
    /\ nextId' = [nextId EXCEPT !.categorySnapshots = tx.view.next]
    /\ tx' = NoTx
    /\ lastOp' = Op("transaction committed", tx.done)
    /\ TxFrame

\* The rejection of the call whose transaction aborted.
Threw(kind) ==
    IF kind = "sweep" THEN "generateAllSnapshots threw"
    ELSE "regenerateSnapshotForMonth threw"

\* Variant: what was written before the failure stays.
txAbort_KeepsWrites ==
    /\ tx.pc # "none"
    /\ monthlySnapshots' = tx.view.ms
    /\ categorySnapshots' = tx.view.cs
    /\ nextId' = [nextId EXCEPT !.categorySnapshots = tx.view.next]
    /\ tx' = NoTx
    /\ lastOp' = Op(Threw(tx.kind), tx.done)
    /\ TxFrame

\* A request failed or the scope function threw: the transaction aborts,
\* and the call rejects.
txAbort ==
    /\ tx.pc # "none"
    /\ UNCHANGED <<monthlySnapshots, categorySnapshots, nextId>>
    /\ tx' = NoTx
    /\ lastOp' = Op(Threw(tx.kind), tx.done)
    /\ TxFrame

BeginMonth == \E m \in {MonthOf(b.date) : b \in balances} : beginMonth(m)

\* No transaction has been opened yet: the operations that run as one step
\* end with a regeneration transaction over the same tables, which waits for
\* the open one.
NoTxOpen ==
    /\ tx = NoTx
    /\ lastOp.op \notin {"transaction committed", Threw("sweep"),
                         Threw("month")}

\* The store is filled and damaged; then snapshot write transactions run
\* request by request, each to its commit or to a failure at any request.
NextWriter ==
    \/ NoTxOpen /\ AddCategory
    \/ NoTxOpen /\ AddAccount
    \/ NoTxOpen /\ CorruptNetWorth
    \/ beginSweep
    \/ BeginMonth
    \/ txCalculate
    \/ txPut
    \/ txDelete
    \/ txAdd
    \/ txCommit
    \/ txAbort

SpecWriter == Init /\ [][NextWriter]_vars

\* ----------------------------------------------------------------------
\* The Auditor's repair of one month, await by await
\* ----------------------------------------------------------------------
\* What a step of a call in flight leaves alone besides the tables it names.
CallFrame ==
    UNCHANGED <<profile, profileNextId, profileCalls, auditTask, tx>>

\* if (!isValid) regenerateSnapshotForMonth(db, month), up to
\* `const data = await calculateSnapshotForMonth(database, month)`: the
\* totals are calculated before the write transaction is opened.
repairCalculate(t, month) ==
    /\ calls[t] = NoCall
    /\ month \in {MonthOf(b.date) : b \in balances}
    /\ ~verifySnapshot(monthlySnapshots, categorySnapshots, accounts,
                       balances, month)
    /\ calls' = [calls EXCEPT ![t] =
                    [pc |-> "calculated", month |-> month,
                     data |-> calculateSnapshotForMonth(accounts, balances,
                                                        month)]]
    /\ UNCHANGED <<accounts, balances, categories, monthlySnapshots,
                   categorySnapshots, nextId, lastOp, accountsValue>>
    /\ CallFrame

\* regenerateSnapshotForMonth, the write transaction: put, delete, add with
\* the totals calculated before.
repairWrite(t) ==
    /\ calls[t].pc = "calculated"
    /\ LET st == WriteMonth(CurrentSnapStore, calls[t].month, calls[t].data)
       IN /\ st.next <= MaxCategorySnapshots + 1
          /\ monthlySnapshots' = st.ms
          /\ categorySnapshots' = st.cs
          /\ nextId' = [nextId EXCEPT !.categorySnapshots = st.next]
    /\ lastOp' = Op("regenerateSnapshotForMonth", calls[t].month)
    /\ calls' = [calls EXCEPT ![t] = NoCall]
    /\ UNCHANGED <<accounts, balances, categories, accountsValue>>
    /\ CallFrame

RepairCalculate == \E m \in Months : repairCalculate(1, m)

RepairWrite == repairWrite(1)

\* The pages' account and balance operations, a corruption of a stored
\* netWorth, and the Auditor's repair of a month it found invalid, the
\* operations free to run between the repair's calculation and its write.
NextRepair ==
    \/ AddCategory
    \/ AddAccount
    \/ UpdateBalance(ExistingAccountIds)
    \/ DeleteAccount(ExistingAccountIds)
    \/ CorruptNetWorth
    \/ RepairCalculate
    \/ RepairWrite

SpecRepair == Init /\ [][NextRepair]_vars

\* ----------------------------------------------------------------------
\* addAccount and updateBalance, await by await (useDatabase)
\* ----------------------------------------------------------------------
\* A call that has resolved, one that has rejected, one between two awaits.
Resolved == [pc |-> "resolved"]

CallRejected == [pc |-> "rejected"]

InFlight(t) == calls[t].pc \notin {"idle", "resolved", "rejected"}

\* The first caller's call is started first, the second caller's while the
\* first is in flight.
MayStart(t) == calls[t] = NoCall /\ (t = 1 \/ InFlight(1))

\* The call's first await: the write transaction on accounts and balances.
\* A call that throws inside it rejects and does nothing more.
addAccountWrite(t, categoryName, initialBalance, now) ==
    LET category == CategoryByName(categoryName) IN
    /\ MayStart(t)
    /\ IF category = {} \/ (\E c \in category : c.id = 0)
       THEN /\ Rejected("Category not found")
            /\ calls' = [calls EXCEPT ![t] = CallRejected]
       ELSE
         LET c == CHOOSE x \in category : TRUE
             newAccountId == nextId.accounts
         IN /\ newAccountId <= MaxAccounts
            /\ nextId.balances <= MaxBalances
            /\ accounts' = accounts \cup
                  {[id |-> newAccountId, categoryId |-> c.id,
                    type |-> c.type]}
            /\ balances' = balances \cup
                  {[id |-> nextId.balances, accountId |-> newAccountId,
                    date |-> now, value |-> initialBalance]}
            /\ nextId' = [nextId EXCEPT !.accounts = @ + 1,
                                        !.balances = @ + 1]
            /\ calls' = [calls EXCEPT ![t] = [pc |-> "written", date |-> now]]
            /\ lastOp' = Op("write", 0)
            /\ UNCHANGED <<categories, monthlySnapshots, categorySnapshots,
                           accountsValue>>
    /\ CallFrame

updateBalanceWrite(t, accountId, value, date) ==
    LET existing == ExistingBalance(accountId, date) IN
    /\ MayStart(t)
    /\ IF existing # {}
       THEN /\ balances' =
                  {IF b \in existing THEN [b EXCEPT !.value = value] ELSE b
                      : b \in balances}
            /\ nextId' = nextId
       ELSE /\ nextId.balances <= MaxBalances
            /\ balances' = balances \cup
                  {[id |-> nextId.balances, accountId |-> accountId,
                    date |-> date, value |-> value]}
            /\ nextId' = [nextId EXCEPT !.balances = @ + 1]
    /\ calls' = [calls EXCEPT ![t] = [pc |-> "written", date |-> date]]
    /\ lastOp' = Op("write", 0)
    /\ UNCHANGED <<accounts, categories, monthlySnapshots, categorySnapshots,
                   accountsValue>>
    /\ CallFrame

\* loadAccounts: const allAccounts = await db.accounts.toArray(). The ids
\* are those of the accounts in the store at this await.
loadAccountsStart(t) ==
    /\ calls[t].pc = "written"
    /\ calls' = [calls EXCEPT ![t] =
                    [pc |-> "loading", date |-> calls[t].date,
                     ids |-> SortAsc({a.id : a \in accounts} \ {0}),
                     details |-> {}]]
    /\ UNCHANGED <<accounts, balances, categories, monthlySnapshots,
                   categorySnapshots, nextId, lastOp, accountsValue>>
    /\ CallFrame

\* loadAccounts: one `await db.balances.where('accountId').equals(id).last()`
\* of the loop; `accounts.value = accountsWithDetails` runs in the
\* continuation of the last await (that of loadProfile when there is no
\* account).
loadAccountsRead(t) ==
    LET call == calls[t]
        rows == {b \in balances : b.accountId = Head(call.ids)}
        details ==
            IF call.ids = << >> THEN call.details
            ELSE call.details \cup
                   {[id |-> Head(call.ids),
                     latestBalance |-> IF rows = {} THEN 0
                                       ELSE LastByIndex(rows).value]}
    IN /\ call.pc = "loading"
       /\ IF Len(call.ids) <= 1
          THEN /\ accountsValue' = details
               /\ calls' = [calls EXCEPT ![t] =
                               [pc |-> "loaded", date |-> call.date]]
          ELSE /\ accountsValue' = accountsValue
               /\ calls' = [calls EXCEPT ![t] =
                               [call EXCEPT !.ids = Tail(@),
                                            !.details = details]]
       /\ UNCHANGED <<accounts, balances, categories, monthlySnapshots,
                      categorySnapshots, nextId, lastOp>>
       /\ CallFrame

\* Variant: only the month of the balance the call wrote is regenerated.
MonthsToRegenerate_OwnMonth(t) == <<MonthOf(calls[t].date)>>

\* generateAllSnapshots: const months = await getAllMonths(database)
MonthsToRegenerate(t) == getAllMonths(balances)

\* generateAllSnapshots up to the opening of its transaction: the months
\* are enumerated outside any transaction; with no month the call returns.
enumerateMonths(t) ==
    LET months == MonthsToRegenerate(t) IN
    /\ calls[t].pc = "loaded"
    /\ IF Len(months) = 0
       THEN /\ calls' = [calls EXCEPT ![t] = Resolved]
            /\ lastOp' = Op("generateAllSnapshots", 0)
       ELSE /\ calls' = [calls EXCEPT ![t] =
                            [pc |-> "enumerated", months |-> months]]
            /\ lastOp' = lastOp
    /\ UNCHANGED <<accounts, balances, categories, monthlySnapshots,
                   categorySnapshots, nextId, accountsValue>>
    /\ CallFrame

\* generateAllSnapshots, the transaction: every enumerated month is
\* calculated from the accounts and balances the transaction reads and
\* written; then the call resolves.
regenerateMonths(t) ==
    /\ calls[t].pc = "enumerated"
    /\ LET st == SweepMonths(CurrentSnapStore, calls[t].months, accounts,
                             balances)
       IN /\ monthlySnapshots' = st.ms
          /\ categorySnapshots' = st.cs
          /\ nextId' = [nextId EXCEPT !.categorySnapshots = st.next]
    /\ calls' = [calls EXCEPT ![t] = Resolved]
    /\ lastOp' = Op("generateAllSnapshots", 0)
    /\ UNCHANGED <<accounts, balances, categories, accountsValue>>
    /\ CallFrame

AddAccountWrite ==
    \E t \in Callers, c \in CategoryNames, v \in Values, now \in Dates :
       addAccountWrite(t, c, v, now)

UpdateBalanceWrite ==
    \E t \in Callers, id \in ExistingAccountIds, v \in Values, d \in Dates :
       updateBalanceWrite(t, id, v, d)

LoadAccountsStart == \E t \in Callers : loadAccountsStart(t)

LoadAccountsRead == \E t \in Callers : loadAccountsRead(t)

EnumerateMonths == \E t \in Callers : enumerateMonths(t)

RegenerateMonths == \E t \in Callers : regenerateMonths(t)

\* No call of the two callers has been started yet.
NoCallStarted == \A t \in Callers : calls[t] = NoCall

\* The store is filled call after call; then the two callers make one call
\* each, addAccount or updateBalance, the awaits of the two calls
\* interleaved in any order.
NextOverlap ==
    \/ (NoCallStarted /\ AddCategory)
    \/ (NoCallStarted /\ AddAccount)
    \/ AddAccountWrite
    \/ UpdateBalanceWrite
    \/ LoadAccountsStart
    \/ LoadAccountsRead
    \/ EnumerateMonths
    \/ RegenerateMonths

SpecOverlap == Init /\ [][NextOverlap]_vars

\* ----------------------------------------------------------------------
\* deleteCategory, await by await (useDatabase)
\* ----------------------------------------------------------------------
\* const accountsUsingCategory = await db.accounts.where('categoryId')
\* .equals(id).count(), and the throw when it is positive.
deleteCategoryCount(t, id) ==
    /\ calls[t] = NoCall
    /\ IF AccountsUsingCategory(id) > 0
       THEN /\ Rejected("Cannot delete category")
            /\ UNCHANGED calls
       ELSE /\ calls' = [calls EXCEPT ![t] = [pc |-> "counted", id |-> id]]
            /\ UNCHANGED <<accounts, balances, categories, monthlySnapshots,
                           categorySnapshots, nextId, lastOp, accountsValue>>
    /\ CallFrame

\* await db.categories.delete(id), in no transaction with the count, and
\* the loadAccounts that follows it.
deleteCategoryDelete(t) ==
    /\ calls[t].pc = "counted"
    /\ categories' = {c \in categories : c.id # calls[t].id}
    /\ lastOp' = Op("write", 0)
    /\ accountsValue' = loadAccounts(accounts, balances)
    /\ calls' = [calls EXCEPT ![t] = NoCall]
    /\ UNCHANGED <<accounts, balances, monthlySnapshots, categorySnapshots,
                   nextId>>
    /\ CallFrame

DeleteCategoryCount == \E id \in ExistingCategoryIds : deleteCategoryCount(1, id)

DeleteCategoryDelete == deleteCategoryDelete(1)

\* Categories and accounts are added and accounts are moved between
\* categories while a deleteCategory call is between its count and its
\* delete.
NextDelete ==
    \/ AddCategory
    \/ AddAccount
    \/ UpdateAccount(ExistingAccountIds)
    \/ DeleteCategoryCount
    \/ DeleteCategoryDelete

SpecDelete == Init /\ [][NextDelete]_vars

\* updateProfile calls of the callers, their reads and writes interleaved
\* in any order (the function awaits between the two and holds no
\* transaction).
UpdateProfileRead ==
    \E t \in ProfileCallers, data \in ProfileNames : updateProfileRead(t, data)

UpdateProfileWrite ==
    \E t \in ProfileCallers : updateProfileWrite(t)

NextProfile ==
    \/ UpdateProfileRead
    \/ UpdateProfileWrite

SpecProfile == Init /\ [][NextProfile]_vars

\* ----------------------------------------------------------------------
\* The scheduled task of the integrity plugin
\* ----------------------------------------------------------------------
\* runIntegrityCheck throws part-way: the months before the failing one were
\* verified and repaired, each repair in a transaction of its own.
runIntegrityCheckThrows ==
    LET months == getAllMonths(balances) IN
    \E k \in 0..Len(months) :
       LET res == AuditLoop(CurrentSnapStore, 0, SubSeq(months, 1, k),
                            accounts, balances)
       IN /\ res.store.next <= MaxCategorySnapshots + 1
          /\ monthlySnapshots' = res.store.ms
          /\ categorySnapshots' = res.store.cs
          /\ nextId' = [nextId EXCEPT !.categorySnapshots = res.store.next]
          /\ lastOp' = Op("runIntegrityCheck threw", res.repairCount)
          /\ UNCHANGED <<accounts, balances, categories, accountsValue>>

\* generateAllSnapshots throws: its single transaction is rolled back.
generateAllSnapshotsThrows ==
    /\ lastOp' = Op("generateAllSnapshots threw", 0)
    /\ UNCHANGED <<accounts, balances, categories, monthlySnapshots,
                   categorySnapshots, nextId, accountsValue>>

\* try { await runIntegrityCheck() }, the audit returning normally: the
\* catch block is skipped and the callback ends.
scheduledAuditReturns_ThenRegenerates ==
    /\ auditTask.pc = "scheduled"
    /\ runIntegrityCheck
    /\ auditTask' = [auditTask EXCEPT !.pc = "fallback", !.audits = @ + 1]
    /\ ProfileUntouched
    /\ CallsUntouched

scheduledAuditReturns ==
    /\ auditTask.pc = "scheduled"
    /\ runIntegrityCheck
    /\ auditTask' = [auditTask EXCEPT !.pc = "done", !.audits = @ + 1]
    /\ ProfileUntouched
    /\ CallsUntouched

\* catch (error) { console.error('[integrity] Integrity check failed:') ...
scheduledAuditThrows ==
    /\ auditTask.pc = "scheduled"
    /\ runIntegrityCheckThrows
    /\ auditTask' = [auditTask EXCEPT
                        !.pc = "fallback", !.audits = @ + 1,
                        !.auditThrew = TRUE,
                        !.errors = Append(@, "Integrity check failed")]
    /\ ProfileUntouched
    /\ CallsUntouched

\* try { await generateAllSnapshots(db) }, returning normally.
fallbackReturns ==
    /\ auditTask.pc = "fallback"
    /\ fullRegeneration
    /\ auditTask' = [auditTask EXCEPT !.pc = "done", !.regenerations = @ + 1]
    /\ ProfileUntouched
    /\ CallsUntouched

\* catch (regenerateError) { console.error('... also failed:') }
fallbackThrows ==
    /\ auditTask.pc = "fallback"
    /\ generateAllSnapshotsThrows
    /\ auditTask' = [auditTask EXCEPT
                        !.pc = "done", !.regenerations = @ + 1,
                        !.errors = Append(@, "Full regeneration also failed")]
    /\ ProfileUntouched
    /\ CallsUntouched

\* A step of the timer callback.
TaskStep ==
    \/ scheduledAuditThrows
    \/ fallbackThrows
    \/ scheduledAuditReturns
    \/ fallbackReturns

\* The store is filled and damaged during the second the timer waits; then
\* the callback runs.
TaskPending == auditTask.pc = "scheduled"

NextTask ==
    \/ TaskPending /\ AddCategory
    \/ TaskPending /\ AddAccount
    \/ TaskPending /\ UpdateBalance(ExistingAccountIds)
    \/ TaskPending /\ DamageSnapshot
    \/ scheduledAuditReturns
    \/ scheduledAuditThrows
    \/ fallbackReturns
    \/ fallbackThrows

\* The timer fires and every awaited call settles.
SpecTask == Init /\ [][NextTask]_vars /\ WF_vars(TaskStep)

\* ----------------------------------------------------------------------
\* Vocabulary of the properties
\* ----------------------------------------------------------------------
\* Months a snapshot can be asked for: those of Dates, a month between two
\* of them (2024-02, a leap February) and a month after all of them.
TargetMonths == Months \cup {202402, 202404}

BalanceMonths == {MonthOf(b.date) : b \in balances}

SnapshotMonths == {r.month : r \in monthlySnapshots}

\* Accounts that have at least one balance dated on or before the month's end.
Contributing(accs, bals, month) ==
    {a \in accs : BalancesUpTo(bals, a.id, getMonthEndDate(month)) # {}}

\* The observation of an account that the month must carry forward: the one
\* with the greatest date on or before the month's end (the one written last
\* if two rows share that date).
LatestByDate(bals, accountId, month) ==
    LET found == BalancesUpTo(bals, accountId, getMonthEndDate(month))
        top == {b \in found : \A c \in found : c.date <= b.date}
    IN CHOOSE b \in top : \A c \in top : c.id <= b.id

RECURSIVE SumByDate(_, _, _)
\* Sum, over a set of contributing accounts, of the carried-forward values.
SumByDate(accs, bals, month) ==
    IF accs = {} THEN 0
    ELSE LET a == CHOOSE x \in accs : TRUE
         IN LatestByDate(bals, a.id, month).value
            + SumByDate(accs \ {a}, bals, month)

RECURSIVE SumAttributed(_, _, _)
\* Sum, over a set of contributing accounts, of the values the Calculator's
\* query returns for them.
SumAttributed(accs, bals, month) ==
    IF accs = {} THEN 0
    ELSE LET a == CHOOSE x \in accs : TRUE
         IN LastByIndex(BalancesUpTo(bals, a.id, getMonthEndDate(month))).value
            + SumAttributed(accs \ {a}, bals, month)

\* The Calculator's per-category totals as a set of (categoryId, total).
CategoryTotalSet(data) ==
    {<<data.categoryTotals[i].categoryId, data.categoryTotals[i].total>>
        : i \in 1..Len(data.categoryTotals)}

\* The stored rows of a month without their store-assigned id.
StoredCategoryRowsOf(cs, month) ==
    {[categoryId |-> r.categoryId, type |-> r.type, total |-> r.total]
        : r \in {x \in cs : x.month = month}}

\* Every stored snapshot equals what the Calculator returns for its month on
\* the accounts and balances now in the store.
SnapshotsMatchData(accs, bals, ms, cs) ==
    /\ \A r \in ms :
         LET data == calculateSnapshotForMonth(accs, bals, r.month) IN
         /\ r.assetsTotal = data.assetsTotal
         /\ r.liabilitiesTotal = data.liabilitiesTotal
         /\ r.netWorth = data.netWorth
         /\ StoredCategoryRowsOf(cs, r.month) =
              {[categoryId |-> data.categoryTotals[i].categoryId,
                type |-> data.categoryTotals[i].type,
                total |-> data.categoryTotals[i].total]
                  : i \in 1..Len(data.categoryTotals)}
    /\ \A r \in cs : \E m \in ms : m.month = r.month

\* ----------------------------------------------------------------------
\* C1  Completeness: after a full regeneration the months that have a
\* MonthlySnapshot row are exactly the months of the Balance rows in the
\* store.
\* ----------------------------------------------------------------------
C1_Completeness == JustRegenerated => SnapshotMonths = BalanceMonths

\* ----------------------------------------------------------------------
\* C2  Most-recent-observation-carried-forward: for every target month the
\* Calculator's asset total and per-category totals are the sums of, per
\* contributing account, the value of its balance with the greatest date on
\* or before month end, whatever the order the balances were recorded in;
\* accounts with no such balance contribute to no total.
\* ----------------------------------------------------------------------
C2_CarriedForwardByDate ==
    \A m \in TargetMonths :
        LET data == calculateSnapshotForMonth(accounts, balances, m)
            contrib == Contributing(accounts, balances, m)
        IN /\ data.assetsTotal =
                SumByDate({a \in contrib : a.type = "asset"}, balances, m)
           /\ CategoryTotalSet(data) =
                {<<k, SumByDate({a \in contrib : a.categoryId = k}, balances, m)>>
                    : k \in {a.categoryId : a \in contrib}}

\* ----------------------------------------------------------------------
\* C3  Signed liabilities: for every target month the Calculator's
\* liabilitiesTotal is the sum of the raw signed values attributed to the
\* liability accounts, and netWorth subtracts that signed sum.
\* ----------------------------------------------------------------------
C3_SignedLiabilities ==
    \A m \in TargetMonths :
        LET data == calculateSnapshotForMonth(accounts, balances, m)
            contrib == Contributing(accounts, balances, m)
            signed == SumAttributed({a \in contrib : a.type # "asset"},
                                    balances, m)
        IN /\ data.liabilitiesTotal = signed
           /\ data.netWorth = data.assetsTotal - signed

\* ----------------------------------------------------------------------
\* C4  Cascade delete: when deleteAccount(id) resolves on a store whose
\* snapshots matched its data, no Balance row of id remains and every
\* stored MonthlySnapshot and CategorySnapshot, of any month, equals the
\* Calculator's result on the remaining accounts and balances (no
\* contribution of the deleted account is left).
\* ----------------------------------------------------------------------
C4_CascadeDelete ==
    [][\A id \in AccountIds :
          (/\ \E a \in accounts : a.id = id
           /\ SnapshotsMatchData(accounts, balances, monthlySnapshots,
                                 categorySnapshots)
           /\ deleteAccount(id))
          => /\ \A b \in balances' : b.accountId # id
             /\ SnapshotsMatchData(accounts', balances', monthlySnapshots',
                                   categorySnapshots')]_vars

\* ----------------------------------------------------------------------
\* C5  Upsert by natural key: there is at most one Balance row per
\* (accountId, date), and updateBalance(id, v, d) leaves exactly one row for
\* (id, d), holding v.
\* ----------------------------------------------------------------------
OneRowPerAccountAndDate(bals) ==
    \A b \in bals, c \in bals :
        (b.accountId = c.accountId /\ b.date = c.date) => b.id = c.id

C5_UpsertByNaturalKey ==
    [][/\ OneRowPerAccountAndDate(balances')
       /\ \A id \in AccountIds, v \in Values, d \in Dates :
             updateBalance(id, v, d)
             => \A b \in balances' :
                   (b.accountId = id /\ b.date = d) => b.value = v]_vars

\* ----------------------------------------------------------------------
\* C6  Category-set exactness: after a regeneration of a month (every month
\* with balance data after a full regeneration, the month itself after a
\* single-month one) the categoryIds of the month's CategorySnapshot rows
\* are exactly the categoryIds of the accounts with a balance dated on or
\* before the month's end, and no category has two rows.
\* ----------------------------------------------------------------------
CategorySetExact(month) ==
    LET rows == {r \in categorySnapshots : r.month = month} IN
    /\ {r.categoryId : r \in rows} =
          {a.categoryId : a \in Contributing(accounts, balances, month)}
    /\ \A r \in rows, q \in rows : r.categoryId = q.categoryId => r.id = q.id

C6_CategorySetExact ==
    /\ JustRegenerated => \A m \in BalanceMonths : CategorySetExact(m)
    /\ lastOp.op = "regenerateSnapshotForMonth" => CategorySetExact(lastOp.n)

\* A full regeneration has just written a month to which two categories
\* contribute.
C6_Witness ==
    /\ JustRegenerated
    /\ \E m \in BalanceMonths :
          Cardinality({r \in categorySnapshots : r.month = m}) = 2

\* ----------------------------------------------------------------------
\* C7  Idempotence.  A regeneration that follows a regeneration of the same
\* month with no change to accounts or balances in between ...
\* ----------------------------------------------------------------------
RegeneratedAgain ==
    \/ /\ JustRegenerated
       /\ fullRegeneration
    \/ \E m \in BalanceMonths :
          /\ JustRegenerated \/ lastOp = Op("regenerateSnapshotForMonth", m)
          /\ singleMonthRegeneration(m)

\* The rows of categorySnapshots without their store-assigned id.
WithoutIds(cs) ==
    {[month |-> r.month, categoryId |-> r.categoryId, type |-> r.type,
      total |-> r.total] : r \in cs}

\* C7 as stated: ... leaves the MonthlySnapshot and CategorySnapshot rows
\* identical to those after the first run.
C7_IdempotentAsStated ==
    [][RegeneratedAgain
       => /\ monthlySnapshots' = monthlySnapshots
          /\ categorySnapshots' = categorySnapshots]_vars

\* C7 as amended: ... leaves the MonthlySnapshot rows identical and the
\* CategorySnapshot rows identical up to their store-assigned id (the rows
\* are deleted and inserted again under fresh keys).
C7_IdempotentUpToIds ==
    [][RegeneratedAgain
       => /\ monthlySnapshots' = monthlySnapshots
          /\ WithoutIds(categorySnapshots') = WithoutIds(categorySnapshots)
          /\ Cardinality(categorySnapshots') = Cardinality(categorySnapshots)]_vars

\* A single-month regeneration has rewritten the rows of a month that a
\* regeneration had written before (their keys are not the first ones).
C7_Witness ==
    /\ lastOp.op = "regenerateSnapshotForMonth"
    /\ \E r \in categorySnapshots : r.month = lastOp.n /\ r.id >= 2
    /\ \E r \in monthlySnapshots : r.month = lastOp.n /\ r.netWorth # 0

\* ----------------------------------------------------------------------
\* C8  Net worth identity: the Calculator's result for every target month
\* satisfies netWorth = assetsTotal - liabilitiesTotal, and so does every
\* MonthlySnapshot row that the last regeneration wrote.
\* ----------------------------------------------------------------------
IdentityHolds(r) == r.netWorth = r.assetsTotal - r.liabilitiesTotal

C8_NetWorthIdentity ==
    /\ \A m \in TargetMonths :
          IdentityHolds(calculateSnapshotForMonth(accounts, balances, m))
    /\ JustRegenerated =>
          \A r \in monthlySnapshots : r.month \in BalanceMonths => IdentityHolds(r)
    /\ lastOp.op = "regenerateSnapshotForMonth" =>
          \A r \in monthlySnapshots : r.month = lastOp.n => IdentityHolds(r)

\* A regeneration has just written a month with assets and liabilities.
C8_Witness ==
    /\ JustRegenerated
    /\ \E r \in monthlySnapshots :
          /\ r.month \in BalanceMonths
          /\ r.assetsTotal # 0
          /\ r.liabilitiesTotal # 0

\* ----------------------------------------------------------------------
\* C9  Audit repair: when the Auditor runs right after one month's stored
\* netWorth was overwritten in a freshly regenerated store, it counts
\* exactly one repaired month and that month's stored netWorth is the
\* recomputed one again.
\* ----------------------------------------------------------------------
C9_AuditRepairsExactlyOne ==
    [][(lastOp.op = "corrupt" /\ lastOp'.op = "runIntegrityCheck")
       => /\ lastOp'.n = 1
          /\ \A r \in monthlySnapshots' :
                r.month = lastOp.n =>
                   r.netWorth = calculateSnapshotForMonth(
                                    accounts, balances, lastOp.n).netWorth]_vars

\* ----------------------------------------------------------------------
\* C10  Referential-integrity block: deleteCategory(id) called while an
\* account has categoryId = id throws, the category is still there and the
\* accounts, balances, categories and snapshot tables are unchanged.
\* ----------------------------------------------------------------------
C10_DeleteCategoryBlocked ==
    [][\A id \in CategoryIds :
          ((\E a \in accounts : a.categoryId = id) /\ deleteCategory(id))
          => /\ lastOp'.op = "Cannot delete category"
             /\ \A c \in categories : c.id = id => c \in categories'
             /\ UNCHANGED tables]_vars

\* deleteCategory has just been refused for a category that exists and that
\* an account references.
C10_Witness ==
    /\ lastOp.op = "Cannot delete category"
    /\ \E c \in categories : \E a \in accounts : a.categoryId = c.id

\* ----------------------------------------------------------------------
\* C11  Kind consistency: after every completed call every account's type is
\* the type of the category its categoryId references, and
\* updateCategory(id, name, newKind) leaves every account that references id
\* with type newKind and the snapshots of every month with balance data
\* regenerated from the updated accounts.
\* ----------------------------------------------------------------------
KindsConsistent(accs, cats) ==
    \A a \in accs : \E c \in cats : c.id = a.categoryId /\ c.type = a.type

\* The rows of every month with balance data are what the Calculator returns
\* for the month on accs and bals.
BalanceMonthsRegenerated(accs, bals, ms, cs) ==
    \A m \in {MonthOf(b.date) : b \in bals} :
        LET data == calculateSnapshotForMonth(accs, bals, m) IN
        /\ {r \in ms : r.month = m} =
              {[month |-> m, assetsTotal |-> data.assetsTotal,
                liabilitiesTotal |-> data.liabilitiesTotal,
                netWorth |-> data.netWorth]}
        /\ StoredCategoryRowsOf(cs, m) =
              {[categoryId |-> data.categoryTotals[i].categoryId,
                type |-> data.categoryTotals[i].type,
                total |-> data.categoryTotals[i].total]
                  : i \in 1..Len(data.categoryTotals)}

C11_KindConsistency ==
    [][/\ KindsConsistent(accounts', categories')
       /\ \A id \in CategoryIds, c \in CategoryInputs :
             (updateCategory(id, c[1], c[2])
              /\ lastOp'.op = "generateAllSnapshots")
             => /\ \A a \in accounts' : a.categoryId = id => a.type = c[2]
                /\ BalanceMonthsRegenerated(accounts', balances',
                                            monthlySnapshots',
                                            categorySnapshots')]_vars

\* Two accounts reference one liability category and their month has been
\* regenerated with them as liabilities.
C11_Witness ==
    /\ JustRegenerated
    /\ \E c \in categories :
          /\ c.type = "liability"
          /\ Cardinality({a \in accounts : a.categoryId = c.id
                                           /\ a.type = "liability"}) = 2
    /\ \E r \in categorySnapshots : r.type = "liability"

\* ----------------------------------------------------------------------
\* C12  Rejected import is non-destructive: importDatabase given a document
\* that is not an object, whose version is not a number or whose data is
\* missing throws "Invalid export file format" and leaves every table, and
\* every key generator, as it was.
\* ----------------------------------------------------------------------
InvalidShape(json) ==
    ~json.isObject \/ ~json.versionIsNumber \/ ~json.dataIsObject

C12_RejectedImportKeepsTables ==
    [][\A json \in ImportDocs :
          (InvalidShape(json) /\ importDatabase(json))
          => /\ lastOp'.op = "Invalid export file format"
             /\ UNCHANGED tables
             /\ UNCHANGED nextId]_vars

\* An import has just been rejected on a store that holds an account, its
\* balance and their snapshots.
C12_Witness ==
    /\ lastOp.op = "Invalid export file format"
    /\ accounts # {}
    /\ balances # {}
    /\ monthlySnapshots # {}
    /\ categorySnapshots # {}

\* ----------------------------------------------------------------------
\* C13  Mutation ordering and freshness: when a call of addAccount,
\* updateBalance, updateAccount, deleteAccount, updateCategory or
\* importDatabase resolves, every month with balance data has its snapshot
\* rows and every stored snapshot, of any month, equals the Calculator's
\* result on the accounts and balances the call left in the store.
\* ----------------------------------------------------------------------
MutationCallResolves ==
    /\ \/ AddAccount
       \/ UpdateBalance(AccountIds)
       \/ UpdateAccount(AccountIds)
       \/ DeleteAccount(AccountIds)
       \/ UpdateCategory(CategoryIds)
       \/ ImportDatabase
    /\ lastOp'.op = "generateAllSnapshots"

C13_FreshWhenResolved ==
    [][MutationCallResolves
       => /\ BalanceMonthsRegenerated(accounts', balances',
                                      monthlySnapshots', categorySnapshots')
          /\ SnapshotsMatchData(accounts', balances',
                                monthlySnapshots', categorySnapshots')]_vars

\* The part of C13 that concerns the months with balance data.
C13_BalanceMonthsFresh ==
    [][MutationCallResolves
       => BalanceMonthsRegenerated(accounts', balances',
                                   monthlySnapshots', categorySnapshots')]_vars

\* ----------------------------------------------------------------------
\* C14  Profile singleton: after any sequence and any interleaving of
\* updateProfile calls the profile table holds at most one row.
\* ----------------------------------------------------------------------
C14_ProfileSingleton == Cardinality(profile) <= 1

\* ----------------------------------------------------------------------
\* C15  No orphaned balances: after any sequence of addAccount,
\* updateBalance and deleteAccount calls, with any account id, every
\* Balance row's accountId is the id of an account in the store.
\* ----------------------------------------------------------------------
C15_NoOrphanedBalances ==
    \A b \in balances : \E a \in accounts : a.id = b.accountId

\* ----------------------------------------------------------------------
\* C16  Validation error commits nothing: addAccount or updateAccount called
\* with a category name that no Category row has throws "Category not
\* found"; no table changes, no key is consumed and no regeneration runs.
\* ----------------------------------------------------------------------
NothingCommitted ==
    /\ lastOp'.op = "Category not found"
    /\ UNCHANGED tables
    /\ UNCHANGED nextId

C16_ValidationErrorCommitsNothing ==
    [][\A name \in CategoryNames :
          (\A c \in categories : c.name # name)
          => /\ \A v \in Values, now \in Dates :
                   addAccount(name, v, now) => NothingCommitted
             /\ \A id \in AccountIds :
                   updateAccount(id, name) => NothingCommitted]_vars

\* A call has just been rejected for its category name on a store that
\* holds an account with snapshots, so that a regeneration would have
\* rewritten rows.
C16_Witness ==
    /\ lastOp.op = "Category not found"
    /\ accounts # {}
    /\ categorySnapshots # {}
    /\ \E name \in CategoryNames : \A c \in categories : c.name # name

\* ----------------------------------------------------------------------
\* C17  Category name uniqueness: after any sequence of addCategory and
\* updateCategory calls no two Category rows have names that are equal
\* ignoring case, and a call that would create such a pair throws "Category
\* already exists" and changes nothing.
\* ----------------------------------------------------------------------
UniqueIgnoringCase(cats) ==
    \A c \in cats, d \in cats :
        LowerCase(c.name) = LowerCase(d.name) => c.id = d.id

DuplicateRejected ==
    /\ lastOp'.op = "Category already exists"
    /\ UNCHANGED tables
    /\ UNCHANGED nextId

C17_CategoryNamesUnique ==
    [][/\ UniqueIgnoringCase(categories')
       /\ \A name \in CategoryNameVariants, kind \in CategoryKinds :
             /\ (/\ \E c \in categories : LowerCase(c.name) = LowerCase(name)
                 /\ addCategory(name, kind))
                => DuplicateRejected
             /\ \A id \in CategoryIds :
                   (/\ \E c \in categories : c.id = id
                    /\ \E c \in categories :
                          c.id # id /\ LowerCase(c.name) = LowerCase(name)
                    /\ updateCategory(id, name, kind))
                   => DuplicateRejected]_vars

\* A call has just been rejected as a duplicate on a store with two
\* categories, one of them named in lower case.
C17_Witness ==
    /\ lastOp.op = "Category already exists"
    /\ Cardinality(categories) = 2
    /\ \E c \in categories : c.name = "cash"

\* ----------------------------------------------------------------------
\* C18  Carry-forward scenario: one asset account whose only balances are
\* 100 on 2024-01-05 and 150 on 2024-03-10.
\* ----------------------------------------------------------------------
ScenarioStore ==
    /\ Cardinality(accounts) = 1
    /\ \A a \in accounts : a.type = "asset"
    /\ Cardinality(balances) = 2
    /\ {<<b.accountId, b.date, b.value>> : b \in balances} =
          {<<a.id, 20240105, 100>> : a \in accounts}
          \cup {<<a.id, 20240310, 150>> : a \in accounts}

\* What the Calculator attributes to the scenario's account for a month: its
\* asset total, and 0 with no category total when the account is excluded.
Attributes(month, value) ==
    LET data == calculateSnapshotForMonth(accounts, balances, month) IN
    /\ data.assetsTotal = value
    /\ data.netWorth = value
    /\ CategoryTotalSet(data) =
          IF value = 0 THEN {}
          ELSE {<<a.categoryId, value>> : a \in accounts}

\* The stored row of a month that a single-month regeneration just wrote
\* holds the value.
StoredAfterRegeneration(month, value) ==
    lastOp = Op("regenerateSnapshotForMonth", month)
    => \A r \in monthlySnapshots : r.month = month => r.assetsTotal = value

\* The observations were recorded in the order of their dates.
RecordedInDateOrder ==
    \A b \in balances, c \in balances : b.date < c.date => b.id < c.id

\* C18 as stated: the February 2024 snapshot attributes 100 to the account
\* and the April 2024 snapshot attributes 0 to it (account excluded).
C18_ScenarioAsStated ==
    ScenarioStore
    => /\ Attributes(202402, 100)
       /\ Attributes(202404, 0)

\* C18 as amended: February attributes 100 (carried forward); April is not
\* excluded, it attributes the balance recorded last (150 when the two were
\* recorded in date order, 100 otherwise); only a month before the first
\* balance, December 2023, attributes 0 (account excluded).
C18_ScenarioCarriedForward ==
    ScenarioStore
    => /\ Attributes(202402, 100)
       /\ StoredAfterRegeneration(202402, 100)
       /\ Attributes(202404, IF RecordedInDateOrder THEN 150 ELSE 100)
       /\ StoredAfterRegeneration(202404,
                                  IF RecordedInDateOrder THEN 150 ELSE 100)
       /\ Attributes(202312, 0)
       /\ StoredAfterRegeneration(202312, 0)

\* The scenario's store, recorded in date order, with the snapshot of
\* February just regenerated.
C18_Witness ==
    /\ ScenarioStore
    /\ RecordedInDateOrder
    /\ lastOp = Op("regenerateSnapshotForMonth", 202402)
    /\ \E r \in monthlySnapshots : r.month = 202402 /\ r.assetsTotal = 100

\* ----------------------------------------------------------------------
\* C19  Auditor detection: a run of runIntegrityCheck regenerates exactly
\* the months with balance data whose MonthlySnapshot row is missing, whose
\* stored netWorth is more than 0.01 away from the Auditor's expected one,
\* or for which an expected category has no stored row or a stored total
\* more than 0.01 away; it leaves the rows of every other such month as
\* they were, and its repair count is the number of months it regenerated.
\* ----------------------------------------------------------------------
Mismatch(month) ==
    LET expected == calculateExpectedSnapshot(accounts, balances, month) IN
    \/ \A r \in monthlySnapshots : r.month # month
    \/ \E r \in monthlySnapshots :
          r.month = month /\ Abs(r.netWorth - expected.netWorth) > Tolerance
    \/ \E i \in 1..Len(expected.categoryTotals) :
          LET rows == {r \in categorySnapshots :
                          /\ r.month = month
                          /\ r.categoryId = expected.categoryTotals[i].categoryId}
          IN \/ rows = {}
             \/ \E r \in rows :
                   Abs(r.total - expected.categoryTotals[i].total) > Tolerance

\* The rows of the month after the step are what the Calculator returns.
MonthRegenerated(month) ==
    LET data == calculateSnapshotForMonth(accounts, balances, month) IN
    /\ {r \in monthlySnapshots' : r.month = month} =
          {[month |-> month, assetsTotal |-> data.assetsTotal,
            liabilitiesTotal |-> data.liabilitiesTotal,
            netWorth |-> data.netWorth]}
    /\ StoredCategoryRowsOf(categorySnapshots', month) =
          {[categoryId |-> data.categoryTotals[i].categoryId,
            type |-> data.categoryTotals[i].type,
            total |-> data.categoryTotals[i].total]
              : i \in 1..Len(data.categoryTotals)}

\* The rows of the month are the same rows after the step.
MonthNotRewritten(month) ==
    /\ {r \in monthlySnapshots' : r.month = month} =
          {r \in monthlySnapshots : r.month = month}
    /\ {r \in categorySnapshots' : r.month = month} =
          {r \in categorySnapshots : r.month = month}

TaskTiersInOrder ==
    /\ auditTask.pc \in {"scheduled", "fallback", "done"}
    /\ auditTask.audits <= 1
    /\ auditTask.regenerations <= 1
    /\ auditTask.regenerations = 1 => auditTask.auditThrew
    /\ auditTask.pc = "scheduled" =>
          auditTask.audits = 0 /\ auditTask.regenerations = 0
    /\ auditTask.pc = "fallback" =>
          /\ auditTask.audits = 1 /\ auditTask.auditThrew
          /\ auditTask.regenerations = 0
    /\ auditTask.pc = "done" =>
          /\ auditTask.audits = 1
          /\ auditTask.regenerations = IF auditTask.auditThrew THEN 1 ELSE 0

\* Each failure is logged once, in order, and a failed regeneration ends
\* the task.
TaskFailuresLogged ==
    /\ auditTask.errors \in
          {<< >>, <<"Integrity check failed">>,
           <<"Integrity check failed", "Full regeneration also failed">>}
    /\ auditTask.auditThrew <=> Len(auditTask.errors) >= 1
    /\ lastOp.op = "generateAllSnapshots threw" =>
          auditTask.pc = "done" /\ Len(auditTask.errors) = 2

\* A finished task starts nothing further.
TaskStaysDone == auditTask.pc = "done" => UNCHANGED <<auditTask, tables>>

\* C20: the scheduled task runs the audit once; the full regeneration is
\* attempted only if the audit threw, and then exactly once; if that throws
\* too the failure is logged and nothing further is attempted; the task
\* always terminates, and it never starts a full regeneration after an audit
\* that returned normally.
C20_TwoTierFallback ==
    /\ [](TaskTiersInOrder /\ TaskFailuresLogged)
    /\ [][TaskStaysDone]_vars
    /\ <>(auditTask.pc = "done")

\* Both tiers threw on a store with balances: two errors logged and the
\* task finished.
C20_Witness ==
    /\ balances # {}
    /\ auditTask.pc = "done"
    /\ auditTask.regenerations = 1
    /\ Len(auditTask.errors) = 2

\* ----------------------------------------------------------------------
\* C23  Empty-data no-op
\* ----------------------------------------------------------------------
\* A full regeneration, on its own or at the end of deleteAccount, or an
\* Auditor run.
RegenerationOrAudit ==
    \/ fullRegeneration
    \/ runIntegrityCheck
    \/ \E id \in AccountIds : deleteAccount(id)

\* C23: when generateAllSnapshots or runIntegrityCheck runs on a store with
\* no Balance row, it returns without error and neither writes nor deletes
\* any MonthlySnapshot or CategorySnapshot row.
C23_EmptyDataNoOp ==
    [][(RegenerationOrAudit /\ balances' = {})
       => /\ UNCHANGED <<monthlySnapshots, categorySnapshots>>
          /\ lastOp'.op \in {"generateAllSnapshots", "runIntegrityCheck"}]_vars

\* The Auditor ran on a store without balances that still holds snapshot
\* rows of deleted accounts, and left them in place.
C23_Witness ==
    /\ balances = {}
    /\ monthlySnapshots # {}
    /\ categorySnapshots # {}
    /\ lastOp.op = "runIntegrityCheck"

\* ----------------------------------------------------------------------
\* C24  One liability convention
\* ----------------------------------------------------------------------
\* The Auditor's expected values and the Calculator's result for a month on
\* the accounts and balances now in the store.
SameTotals(month) ==
    LET expected == calculateExpectedSnapshot(accounts, balances, month)
        data == calculateSnapshotForMonth(accounts, balances, month)
    IN /\ expected.assetsTotal = data.assetsTotal
       /\ expected.liabilitiesTotal = data.liabilitiesTotal
       /\ expected.netWorth = data.netWorth
       /\ CategoryTotalSet(expected) = CategoryTotalSet(data)

\* C24: for every content of the accounts and balances tables and every
\* month, calculateExpectedSnapshot and calculateSnapshotForMonth return the
\* same assetsTotal, liabilitiesTotal, netWorth and per-category totals.
C24_OneLiabilityConvention == \A m \in TargetMonths : SameTotals(m)

\* ----------------------------------------------------------------------
\* C28  Audit convergence
\* ----------------------------------------------------------------------
\* The Auditor's run that completed last, with nothing done since.
JustAudited == lastOp.op = "runIntegrityCheck"

\* C28: a run of the Auditor that directly follows a completed run, the store
\* unchanged in between, repairs zero months.
C28_AuditConverges ==
    [][(JustAudited /\ runIntegrityCheck) => lastOp'.n = 0]_vars

\* ----------------------------------------------------------------------
\* C29  Audit leaves a fully consistent month
\* ----------------------------------------------------------------------
\* The stored snapshot of a month agrees in full with the Auditor's
\* recomputation: the three totals, and category rows for exactly the
\* expected categories with the expected totals.
FullyConsistent(month) ==
    LET expected == calculateExpectedSnapshot(accounts, balances, month) IN
    /\ \E r \in monthlySnapshots :
          /\ r.month = month
          /\ r.assetsTotal = expected.assetsTotal
          /\ r.liabilitiesTotal = expected.liabilitiesTotal
          /\ r.netWorth = expected.netWorth
    /\ {<<r.categoryId, r.total>> :
           r \in {x \in categorySnapshots : x.month = month}}
          = CategoryTotalSet(expected)

\* C29: after the Auditor has completed, every month with balance data is
\* fully consistent. The months on which the Auditor and the Calculator
\* disagree about the totals themselves (C24) are left out, so that what is
\* checked is the Auditor's detection alone.
C29_AuditLeavesConsistent ==
    JustAudited =>
        \A m \in BalanceMonths : SameTotals(m) => FullyConsistent(m)

\* ----------------------------------------------------------------------
\* C21  Writer atomicity
\* ----------------------------------------------------------------------
\* The rows of a month in the two snapshot tables, as a reader sees them.
MonthRows(ms, cs, month) ==
    <<{r \in ms : r.month = month}, {r \in cs : r.month = month}>>

\* The month's MonthlySnapshot and its CategorySnapshot rows are both those
\* of the Calculator's result on the accounts and balances in the store.
MonthComplete(ms, cs, month) ==
    LET data == calculateSnapshotForMonth(accounts, balances, month) IN
    /\ \E r \in ms :
          /\ r.month = month
          /\ r.assetsTotal = data.assetsTotal
          /\ r.liabilitiesTotal = data.liabilitiesTotal
          /\ r.netWorth = data.netWorth
    /\ StoredCategoryRowsOf(cs, month) =
          {[categoryId |-> data.categoryTotals[i].categoryId,
            type |-> data.categoryTotals[i].type,
            total |-> data.categoryTotals[i].total]
              : i \in 1..Len(data.categoryTotals)}

\* C21: whenever a step of a snapshot write transaction changes what a
\* reader sees of a month, the reader sees the month written in full: its
\* MonthlySnapshot replaced and all its fresh CategorySnapshot rows present.
\* The put, the deletion and the insertions are never seen one by one.
C21_WriterAtomicity ==
    [][tx' # tx =>
          \A m \in Months :
             MonthRows(monthlySnapshots', categorySnapshots', m)
                # MonthRows(monthlySnapshots, categorySnapshots, m)
             => MonthComplete(monthlySnapshots', categorySnapshots', m)]_vars

\* A sweep over two months has committed and every stored netWorth is the
\* Calculator's again.
C21_Witness ==
    /\ lastOp = Op("transaction committed", 2)
    /\ Cardinality(monthlySnapshots) = 2
    /\ Uncorrupted
    /\ \A m \in BalanceMonths :
          MonthComplete(monthlySnapshots, categorySnapshots, m)

\* ----------------------------------------------------------------------
\* C22  All-or-nothing sweep
\* ----------------------------------------------------------------------
\* The sweep's transaction fails after some months were written and before
\* all were.
SweepFailsMidway ==
    /\ tx.pc \notin {"none", "commit"}
    /\ tx.kind = "sweep"
    /\ tx.done >= 1
    /\ tx' = NoTx
    /\ lastOp'.op = "generateAllSnapshots threw"

\* C22: when generateAllSnapshots fails after having processed some but not
\* all months, the MonthlySnapshot and CategorySnapshot tables are exactly as
\* they were before the sweep started.
C22_AllOrNothingSweep ==
    [][SweepFailsMidway =>
          /\ monthlySnapshots' = tx.before.ms
          /\ categorySnapshots' = tx.before.cs]_vars

\* A sweep over two months failed after it had written the first.
C22_Witness ==
    /\ lastOp = Op("generateAllSnapshots threw", 1)
    /\ Cardinality(BalanceMonths) = 2
    /\ monthlySnapshots # {}
    /\ tx = NoTx

\* ----------------------------------------------------------------------
\* C25  Audit repair does not lose a concurrent update
\* ----------------------------------------------------------------------
\* The Auditor's repair of a month has just completed and no call is in
\* flight.
RepairCompleted(month) ==
    /\ lastOp = Op("regenerateSnapshotForMonth", month)
    /\ \A t \in Callers : calls[t] = NoCall

\* C25: once a repair of month M and the mutations that ran alongside it
\* have completed, the stored snapshot of M equals the Calculator's result
\* on the final accounts and balances.
C25_RepairKeepsUpdate ==
    \A m \in BalanceMonths :
       RepairCompleted(m)
          => MonthComplete(monthlySnapshots, categorySnapshots, m)

\* ----------------------------------------------------------------------
\* C26  Overlapping mutations converge
\* ----------------------------------------------------------------------
\* Both calls have resolved.
AllResolved == \A t \in Callers : calls[t] = Resolved

\* C26: once the overlapping addAccount and updateBalance calls have all
\* resolved, every month with balance data has a MonthlySnapshot and
\* CategorySnapshot rows equal to the Calculator's result on the final
\* accounts and balances.
C26_OverlappingMutationsConverge ==
    AllResolved =>
        \A m \in BalanceMonths :
           MonthComplete(monthlySnapshots, categorySnapshots, m)

\* Two addAccount calls started on an empty store, each in its own month,
\* have both resolved, and each regenerated both months: both writes came
\* before both month enumerations.
C26_Witness ==
    /\ AllResolved
    /\ Cardinality(accounts) = 2
    /\ Cardinality(categories) = 1
    /\ Cardinality(BalanceMonths) = 2
    /\ nextId.categorySnapshots = 5

\* ----------------------------------------------------------------------
\* C30  In-memory account cache is not left stale
\* ----------------------------------------------------------------------
\* C30: once the overlapping calls have all resolved, the shared accounts
\* list holds the ids and latestBalance values of the accounts and balances
\* in the store.
C30_AccountListFresh ==
    AllResolved => accountsValue = loadAccounts(accounts, balances)

\* ----------------------------------------------------------------------
\* C27  No dangling category reference under interleaving
\* ----------------------------------------------------------------------
\* C27: once deleteCategory and the addAccount or updateAccount call it
\* was interleaved with have completed, every account's categoryId is the
\* id of a category in the store.
C27_NoDanglingCategory ==
    calls[1] = NoCall =>
        \A a \in accounts : a.categoryId \in ExistingCategoryIds

====
